---- MODULE Spec2Model ----
(***************************************************************************)
(* A model of the sf-ui catalog browser: the gateway that fans a search    *)
(* text out over several pattern queries (fetchBooksForSearch), and the    *)
(* search/browse controller of HomePage (query text, debounced suggestion  *)
(* fetch, main catalog fetch, recent searches).                            *)
(*                                                                         *)
(* Strings are sequences of one-character strings.  A nullable string is   *)
(* either such a sequence or Null.                                         *)
(***************************************************************************)
EXTENDS Integers, Sequences, FiniteSets, Bags, TLC

\* ------------------------------------------------------------------------
\* Sequences
\* ------------------------------------------------------------------------

\* F applied to the value of v; v is evaluated once, however often F uses it
With(v, F(_)) == CHOOSE r \in {F(x) : x \in {v}} : TRUE

\* rows of a sequence that satisfy Keep, in order (Array.prototype.filter)
SelectRows(seq, Keep(_)) ==
  With(seq, LAMBDA rows :
    LET F[lo \in 1..(Len(rows) + 1), hi \in 0..Len(rows)] ==
          IF lo > hi THEN <<>>
          ELSE IF lo = hi THEN (IF Keep(rows[lo]) THEN <<rows[lo]>> ELSE <<>>)
          ELSE F[lo, (lo + hi) \div 2] \o F[((lo + hi) \div 2) + 1, hi]
    IN F[1, Len(rows)])

\* a limit that cuts nothing
NoLimit(seq, n) == seq

\* .limit(n), .slice(0, n)
Limit(seq, n) ==
  With(seq, LAMBDA rows : IF Len(rows) <= n THEN rows ELSE SubSeq(rows, 1, n))

\* a stable sort of rows by Before, a strict weak order (Array.prototype.sort,
\* ORDER BY): a row comes after the rows that are before it, and after the
\* earlier rows it is not before
SortRows(seq, Before(_, _)) ==
  With(seq, LAMBDA rows :
    With([i \in 1..Len(rows) |->
            1 + Cardinality({j \in 1..Len(rows) :
                  \/ Before(rows[j], rows[i])
                  \/ j < i /\ ~Before(rows[i], rows[j])})],
         LAMBDA place :
           [p \in 1..Len(rows) |-> rows[CHOOSE i \in 1..Len(rows) : place[i] = p]]))

\* flatMap over a sequence of row sequences
Flatten(seqs) ==
  With(seqs, LAMBDA ss :
    LET F[lo \in 1..(Len(ss) + 1), hi \in 0..Len(ss)] ==
          IF lo > hi THEN <<>>
          ELSE IF lo = hi THEN ss[lo]
          ELSE F[lo, (lo + hi) \div 2] \o F[((lo + hi) \div 2) + 1, hi]
    IN F[1, Len(ss)])

\* the set of elements of a sequence
Range(seq) == With(seq, LAMBDA s : {s[i] : i \in 1..Len(s)})

\* ------------------------------------------------------------------------
\* Strings
\* ------------------------------------------------------------------------

\* null / undefined of a string-valued field
Null == <<"NULL">>

\* null of an error slot ({ data, error: null }) and of the error state
NullErr == "null"

\* the characters String.prototype.trim() and /\s/ treat as white space
IsSpace(ch) == ch = " "

\* String.prototype.trim()
Trim(str) ==
  With(str, LAMBDA s :
    IF \A i \in 1..Len(s) : IsSpace(s[i]) THEN <<>>
    ELSE SubSeq(s,
           CHOOSE i \in 1..Len(s) :
             ~IsSpace(s[i]) /\ \A j \in 1..(i - 1) : IsSpace(s[j]),
           CHOOSE i \in 1..Len(s) :
             ~IsSpace(s[i]) /\ \A j \in (i + 1)..Len(s) : IsSpace(s[j])))

\* String.prototype.toLowerCase() on the characters of the model
LowerChar(ch) ==
  CASE ch = "A" -> "a"
    [] ch = "B" -> "b"
    [] ch = "É" -> "é"
    [] ch = "I" -> "i"
    [] OTHER -> ch

Lower(str) == With(str, LAMBDA s : [i \in 1..Len(s) |-> LowerChar(s[i])])

\* s.startsWith(p)
StartsWith(str, prefix) ==
  With(<<str, prefix>>, LAMBDA a :
    Len(a[2]) <= Len(a[1]) /\ SubSeq(a[1], 1, Len(a[2])) = a[2])

\* s.includes(p)
Includes(str, part) ==
  With(<<str, part>>, LAMBDA a :
    \E i \in 0..(Len(a[1]) - Len(a[2])) : SubSeq(a[1], i + 1, i + Len(a[2])) = a[2])

\* makeIlikePattern wraps the trimmed text in % ... %; the store matches the
\* pattern case-insensitively, so a field matches when its lower-cased value
\* contains the lower-cased trimmed text.  The model keeps the text between
\* the two wildcards.
makeIlikePattern(q) == Trim(q)

Ilike(value, pattern) ==
  /\ value # Null
  /\ Includes(Lower(value), Lower(pattern))

\* the order of the store's ORDER BY sort_title ASC and of localeCompare on
\* the characters of the model
CharRank(ch) ==
  CASE ch = " " -> 0
    [] ch = "a" -> 1
    [] ch = "A" -> 2
    [] ch = "b" -> 3
    [] ch = "B" -> 4
    [] OTHER -> 5

\* s sorts strictly before t: at the first place where they differ s has the
\* smaller character, or s is a proper prefix of t
StrLess(str1, str2) ==
  With(<<str1, str2>>, LAMBDA a :
    \E i \in 1..Len(a[2]) :
      /\ \A j \in 1..(i - 1) : j <= Len(a[1]) /\ a[1][j] = a[2][j]
      /\ \/ i > Len(a[1])
         \/ a[1][i] # a[2][i] /\ CharRank(a[1][i]) < CharRank(a[2][i]))

\* String.prototype.normalize('NFKD') on the characters of the model: the
\* accented letter decomposes into its base letter and the combining acute
\* accent U+0301, written "^"
Nfkd(ch) == IF ch = "é" THEN <<"e", "^">> ELSE <<ch>>

\* a character in the range U+0300..U+036F
IsCombining(ch) == ch = "^"

NotCombining(ch) == ~IsCombining(ch)

\* normalize: lower-case, decompose, strip the combining marks, trim
normalize(str) ==
  With(Lower(str), LAMBDA lower :
    Trim(SelectRows(Flatten([i \in 1..Len(lower) |-> Nfkd(lower[i])]),
                    NotCombining)))

\* a split that never splits: the whole string is the one word
SplitNothing(str) == <<str>>

\* c.split(/\s+/): the maximal runs of non-space characters; a string that
\* starts (ends) with white space yields a leading (trailing) empty word, and
\* the empty string yields one empty word
SplitWords(str) ==
  With(str, LAMBDA c :
    LET isStart(i) == ~IsSpace(c[i]) /\ (i = 1 \/ IsSpace(c[i - 1]))
        endOf(i) == CHOOSE j \in i..Len(c) :
                      /\ \A k \in i..j : ~IsSpace(c[k])
                      /\ (j = Len(c) \/ IsSpace(c[j + 1]))
        lead == IF c = <<>> \/ IsSpace(c[1]) THEN << <<>> >> ELSE <<>>
        trail == IF c # <<>> /\ IsSpace(c[Len(c)]) THEN << <<>> >> ELSE <<>>
    IN With(SelectRows([i \in 1..Len(c) |-> i], isStart), LAMBDA starts :
         lead \o [n \in 1..Len(starts) |-> SubSeq(c, starts[n], endOf(starts[n]))]
              \o trail))

\* a score without the exact tier
scoreWithoutExact(query, candidate) ==
  With(<<normalize(query), normalize(candidate)>>, LAMBDA a :
    IF a[1] = <<>> THEN 0
    ELSE IF StartsWith(a[2], a[1]) THEN 80
    ELSE IF With(SplitWords(a[2]), LAMBDA words :
              \E i \in 1..Len(words) : StartsWith(words[i], a[1])) THEN 65
    ELSE IF Includes(a[2], a[1]) THEN 45
    ELSE 0)

\* a score that lets the empty query through to the tiers
scoreWithoutEmptyGuard(query, candidate) ==
  With(<<normalize(query), normalize(candidate)>>, LAMBDA a :
    IF a[2] = a[1] THEN 100
    ELSE IF StartsWith(a[2], a[1]) THEN 80
    ELSE IF With(SplitWords(a[2]), LAMBDA words :
              \E i \in 1..Len(words) : StartsWith(words[i], a[1])) THEN 65
    ELSE IF Includes(a[2], a[1]) THEN 45
    ELSE 0)

\* a score that tries the word tier before the prefix tier
scoreWordsFirst(query, candidate) ==
  With(<<normalize(query), normalize(candidate)>>, LAMBDA a :
    IF a[1] = <<>> THEN 0
    ELSE IF a[2] = a[1] THEN 100
    ELSE IF With(SplitWords(a[2]), LAMBDA words :
              \E i \in 1..Len(words) : StartsWith(words[i], a[1])) THEN 65
    ELSE IF StartsWith(a[2], a[1]) THEN 80
    ELSE IF Includes(a[2], a[1]) THEN 45
    ELSE 0)

scoreMatch(query, candidate) ==
  With(<<normalize(query), normalize(candidate)>>, LAMBDA a :
    LET q == a[1]
        c == a[2]
    IN IF q = <<>> THEN 0
       ELSE IF c = q THEN 100
       ELSE IF StartsWith(c, q) THEN 80
       ELSE IF With(SplitWords(c), LAMBDA words :
                 \E i \in 1..Len(words) : StartsWith(words[i], q)) THEN 65
       ELSE IF Includes(c, q) THEN 45
       ELSE 0)

\* ------------------------------------------------------------------------
\* Records of the store
\* ------------------------------------------------------------------------

\* A book row as selected by bookSelect: id, title, sort_title, series, notes,
\* the joined publisher (publisher_id 0 and publishers Null when the book has
\* none) and the joined contributors, each with role, credit_order and the
\* joined person's display_name and sort_name.
Book(id, title, sortTitle, series, notes, pubId, pubName, contributors) ==
  [id |-> id, title |-> title, sort_title |-> sortTitle, series |-> series,
   notes |-> notes, publisher_id |-> pubId, publishers |-> pubName,
   book_contributors |-> contributors]

Contributor(role, order, display, sort) ==
  [role |-> role, credit_order |-> order,
   authors |-> [display_name |-> display, sort_name |-> sort]]

\* the response of one store request: { data, error }.  hasData = FALSE is
\* data: null
Resp(hasData, data, error) == [hasData |-> hasData, data |-> data, error |-> error]

Failed(r) == r.error # NullErr

\* the key of ORDER BY sort_title ASC: nulls last
SortTitleBefore(a, b) ==
  IF a.sort_title = Null THEN FALSE
  ELSE IF b.sort_title = Null THEN TRUE
  ELSE StrLess(a.sort_title, b.sort_title)

\* the indices of the rows that are the first with their key
FirstIndices(keys) ==
  LET first(i) == \A j \in 1..(i - 1) : keys[j] # keys[i]
  IN SelectRows([i \in 1..Len(keys) |-> i], first)

\* a merge that keeps, for each id, its first row
dedupeKeepingFirst(seq) ==
  With(seq, LAMBDA rows :
    With(FirstIndices([i \in 1..Len(rows) |-> rows[i].id]), LAMBDA keep :
      [n \in 1..Len(keep) |-> rows[keep[n]]]))

\* dedupeById: a Map keyed by id, filled in row order.  An id keeps the place
\* of its first row and the value of its last row.
dedupeById(seq) ==
  With(seq, LAMBDA rows :
    LET lastOf(id) == CHOOSE j \in 1..Len(rows) :
                        /\ rows[j].id = id
                        /\ \A k \in (j + 1)..Len(rows) : rows[k].id # id
    IN With(FirstIndices([i \in 1..Len(rows) |-> rows[i].id]), LAMBDA keep :
         [n \in 1..Len(keep) |-> rows[lastOf(rows[keep[n]].id)]]))

\* ------------------------------------------------------------------------
\* The remote store.  db is the books table (each row with its joins); net
\* maps each request of a gateway call to the error the store answers it
\* with, NullErr when the request succeeds.
\* ------------------------------------------------------------------------

FieldValue(book, field) ==
  CASE field = "title" -> book.title
    [] field = "series" -> book.series
    [] field = "notes" -> book.notes
    [] OTHER -> Null

\* one store answer: the rows, or the error with data null
StoreAnswer(net, request, rows) ==
  IF net[request] # NullErr THEN Resp(FALSE, <<>>, net[request])
  ELSE Resp(TRUE, rows, NullErr)

\* from('books').select(bookSelect).ilike(field, pattern)
\*   .order('sort_title', { ascending: true }).limit(limitPerField)
StoreBooksIlike(db, field, pattern, limitPerField) ==
  LET match(b) == Ilike(FieldValue(b, field), pattern)
  IN Limit(SortRows(SelectRows(db, match), SortTitleBefore), limitPerField)

\* the rows of book_contributors, each with its book_id
ContributorRows(db) ==
  With(db, LAMBDA t :
    Flatten([i \in 1..Len(t) |->
               [k \in 1..Len(t[i].book_contributors) |->
                  [book_id |-> t[i].id, c |-> t[i].book_contributors[k]]]]))

\* from('book_contributors').select('book_id,authors!inner(...)')
\*   .eq('role', 'author').ilike('authors.<nameField>', pattern).limit(n)
StoreContributorsIlike(db, nameField, pattern, limitPerField) ==
  LET name(r) == IF nameField = "display_name" THEN r.c.authors.display_name
                 ELSE r.c.authors.sort_name
      match(r) == r.c.role = "author" /\ Ilike(name(r), pattern)
  IN Limit(SelectRows(ContributorRows(db), match), limitPerField)

\* from('books').select(bookSelect).in('id', ids).order('sort_title')
StoreBooksInIds(db, ids) ==
  LET match(b) == b.id \in ids
  IN SortRows(SelectRows(db, match), SortTitleBefore)

\* the publishers table: one row for each publisher of the books table
PublisherRows(db) ==
  LET withPub(b) == b.publisher_id # 0
  IN With(SelectRows(db, withPub), LAMBDA rows :
       With(FirstIndices([i \in 1..Len(rows) |-> rows[i].publisher_id]), LAMBDA idx :
         [n \in 1..Len(idx) |->
            [id |-> rows[idx[n]].publisher_id, name |-> rows[idx[n]].publishers]]))

\* from('publishers').select('id,name').ilike('name', pattern).limit(n)
StorePublishersIlike(db, pattern, limitPerField) ==
  LET match(p) == Ilike(p.name, pattern)
  IN Limit(SelectRows(PublisherRows(db), match), limitPerField)

\* from('books').select(bookSelect).in('publisher_id', ids).order('sort_title')
StoreBooksInPublishers(db, publisherIds) ==
  LET match(b) == b.publisher_id \in publisherIds
  IN SortRows(SelectRows(db, match), SortTitleBefore)

\* ------------------------------------------------------------------------
\* Catalog Query Gateway
\* ------------------------------------------------------------------------

MissingEnv == "Missing Supabase env vars"

\* results.find(r => r.error)?.error over a sequence of answers
FirstError(results) ==
  IF \E i \in 1..Len(results) : Failed(results[i])
  THEN results[CHOOSE i \in 1..Len(results) :
                 /\ Failed(results[i])
                 /\ \A j \in 1..(i - 1) : ~Failed(results[j])].error
  ELSE NullErr

\* what fetchBooksByIlikeFields makes of the answers to its requests
JoinFieldResults(results) ==
  IF FirstError(results) # NullErr THEN Resp(FALSE, <<>>, FirstError(results))
  ELSE Resp(TRUE,
            dedupeById(Flatten([i \in 1..Len(results) |-> results[i].data])),
            NullErr)

fetchBooksByIlikeFields(client, db, net, q, fields, limitPerField) ==
  IF ~client THEN Resp(FALSE, <<>>, MissingEnv)
  ELSE With(makeIlikePattern(q), LAMBDA pattern :
         With([i \in 1..Len(fields) |->
                 StoreAnswer(net, fields[i],
                   StoreBooksIlike(db, fields[i], pattern, limitPerField))],
              JoinFieldResults))

\* what fetchBooksByAuthor makes of the answers to its two lookups: the error,
\* no rows when no book id came back, or the answer of the follow-up fetch
JoinAuthorResults(db, net, results) ==
  IF FirstError(results) # NullErr THEN Resp(FALSE, <<>>, FirstError(results))
  ELSE With({r.book_id : r \in Range(results[1].data \o results[2].data)}, LAMBDA ids :
         IF ids = {} THEN Resp(TRUE, <<>>, NullErr)
         ELSE With(StoreAnswer(net, "books.id", StoreBooksInIds(db, ids)), LAMBDA books :
                Resp(TRUE, books.data, books.error)))

fetchBooksByAuthor(client, db, net, q, limitPerField) ==
  IF ~client THEN Resp(FALSE, <<>>, MissingEnv)
  ELSE With(makeIlikePattern(q), LAMBDA pattern :
         With(<< StoreAnswer(net, "authors.display_name",
                   StoreContributorsIlike(db, "display_name", pattern, limitPerField)),
                 StoreAnswer(net, "authors.sort_name",
                   StoreContributorsIlike(db, "sort_name", pattern, limitPerField)) >>,
              LAMBDA results : JoinAuthorResults(db, net, results)))

\* what fetchBooksByPublisher makes of the answer to its lookup
JoinPublisherResult(db, net, publishers) ==
  IF Failed(publishers) THEN Resp(FALSE, <<>>, publishers.error)
  ELSE With({p.id : p \in Range(publishers.data)}, LAMBDA publisherIds :
         IF publisherIds = {} THEN Resp(TRUE, <<>>, NullErr)
         ELSE With(StoreAnswer(net, "books.publisher_id",
                               StoreBooksInPublishers(db, publisherIds)),
                   LAMBDA books : Resp(TRUE, books.data, books.error)))

fetchBooksByPublisher(client, db, net, q, limitPerField) ==
  IF ~client THEN Resp(FALSE, <<>>, MissingEnv)
  ELSE With(StoreAnswer(net, "publishers.name",
              StorePublishersIlike(db, makeIlikePattern(q), limitPerField)),
            LAMBDA publishers : JoinPublisherResult(db, net, publishers))

\* a join that reports the errors of the field and the author queries only
JoinWithoutPublisherError(bookFieldResult, authorResult, publisherResult) ==
  IF Failed(bookFieldResult) THEN Resp(FALSE, <<>>, bookFieldResult.error)
  ELSE IF Failed(authorResult) THEN Resp(FALSE, <<>>, authorResult.error)
  ELSE Resp(TRUE,
            dedupeById(bookFieldResult.data \o authorResult.data
                       \o publisherResult.data),
            NullErr)

\* what fetchBooksForSearch makes of its three results
JoinSearchResults(bookFieldResult, authorResult, publisherResult) ==
  LET firstErr == IF Failed(bookFieldResult) THEN bookFieldResult.error
                  ELSE IF Failed(authorResult) THEN authorResult.error
                  ELSE publisherResult.error
  IN IF firstErr # NullErr THEN Resp(FALSE, <<>>, firstErr)
     ELSE Resp(TRUE,
               dedupeById(bookFieldResult.data \o authorResult.data
                          \o publisherResult.data),
               NullErr)

fetchBooksForSearch(client, db, net, q, fields, limitPerField) ==
  With(<< fetchBooksByIlikeFields(client, db, net, q, fields, limitPerField),
          fetchBooksByAuthor(client, db, net, q, limitPerField),
          fetchBooksByPublisher(client, db, net, q, limitPerField) >>,
       LAMBDA r : JoinSearchResults(r[1], r[2], r[3]))

\* ------------------------------------------------------------------------
\* Suggestion Aggregator
\* ------------------------------------------------------------------------

\* a string that is neither null nor empty (a truthy string)
Truthy(s) == s # Null /\ s # <<>>

\* credit_order: null
NullOrder == -1

\* Number.MAX_SAFE_INTEGER stands in for a missing credit order; the model
\* keeps it above every credit order it uses
MaxSafeInteger == 2147483647

\* author?.display_name ?? author?.sort_name ?? null
getAuthorDisplayName(author) ==
  IF author.display_name # Null THEN author.display_name ELSE author.sort_name

CreditKey(c) == IF c.credit_order = NullOrder THEN MaxSafeInteger ELSE c.credit_order

CreditBefore(a, b) == CreditKey(a) < CreditKey(b)

IsAuthor(c) == c.role = "author"

getBookAuthors(book) ==
  With(SortRows(SelectRows(book.book_contributors, IsAuthor), CreditBefore),
       LAMBDA sorted :
         SelectRows([i \in 1..Len(sorted) |-> getAuthorDisplayName(sorted[i].authors)],
                    Truthy))

\* book.publishers?.name ?? null
getBookPublisher(book) == book.publishers

\* a Map<string, number> filled by map.set(k, (map.get(k) ?? 0) + 1) over keys
\* in order: its entries, in the order the keys were first set
CountEntries(seq) ==
  With(seq, LAMBDA keys :
    With(FirstIndices(keys), LAMBDA idx :
      [n \in 1..Len(idx) |->
         [key |-> keys[idx[n]],
          count |-> Cardinality({j \in 1..Len(keys) : keys[j] = keys[idx[n]]})]]))

\* authorAlt: for each display name, the sort name of the first author
\* contributor (rows in order, contributors in the order stored) whose sort
\* name is set and differs from the display name; Null when there is none
AuthorAlt(rows, name) ==
  LET isAuthor(r) == IsAuthor(r.c)
      hit(r) == /\ Truthy(getAuthorDisplayName(r.c.authors))
                /\ Truthy(r.c.authors.sort_name)
                /\ getAuthorDisplayName(r.c.authors) # r.c.authors.sort_name
                /\ getAuthorDisplayName(r.c.authors) = name
  IN With(SelectRows(SelectRows(ContributorRows(rows), isAuthor), hit), LAMBDA hits :
       IF hits = <<>> THEN Null ELSE hits[1].c.authors.sort_name)

\* the caps of the four facets
AuthorCap == 6
TitleCap == 8
SeriesCap == 4
PublisherCap == 4

ScoreDesc(a, b) == a.score > b.score

\* an order by score that leaves the counts aside
ScoreOnlyDesc(a, b) == a.score > b.score

ScoreThenCountDesc(a, b) ==
  a.score > b.score \/ (a.score = b.score /\ a.count > b.count)

Positive(s) == s.score > 0

\* an author entry that always displays the display name
AuthorEntryByName(name, count, alt, nameScore, altScore) ==
  [kind |-> "author", value |-> name, display |-> name, alt |-> alt,
   count |-> count,
   score |-> 10 * (IF altScore > nameScore THEN altScore ELSE nameScore)]

\* one author entry with its score.  Scores are kept as ten times the value
\* the code computes, so that score * 1.2 and count / 10 stay integers.
AuthorEntry(name, count, alt, nameScore, altScore) ==
  [kind |-> "author", value |-> name,
   display |-> IF alt # Null /\ altScore > nameScore THEN alt ELSE name,
   alt |-> alt, count |-> count,
   score |-> 10 * (IF altScore > nameScore THEN altScore ELSE nameScore)]

ScoredAuthor(rows, q, entry) ==
  With(AuthorAlt(rows, entry.key), LAMBDA alt :
    With(<<scoreMatch(q, entry.key), IF alt # Null THEN scoreMatch(q, alt) ELSE 0>>,
         LAMBDA sc : AuthorEntry(entry.key, entry.count, alt, sc[1], sc[2])))

authorSuggestions(rows, q) ==
  With(CountEntries(Flatten([i \in 1..Len(rows) |-> getBookAuthors(rows[i])])),
       LAMBDA counts :
    With(Limit(SortRows(SelectRows([i \in 1..Len(counts) |->
                                      ScoredAuthor(rows, q, counts[i])],
                                   Positive),
                        ScoreThenCountDesc),
               AuthorCap),
         LAMBDA top :
      [i \in 1..Len(top) |->
         [kind |-> top[i].kind, value |-> top[i].value, display |-> top[i].display,
          alt |-> top[i].alt, count |-> top[i].count]]))

ScoredTitle(q, book) ==
  With(getBookAuthors(book), LAMBDA authors :
    [kind |-> "title", value |-> book.title, display |-> book.title,
     bookId |-> book.id,
     score |-> 12 * scoreMatch(q, book.title)
               + (IF authors # <<>> THEN 10 * scoreMatch(q, authors[1]) ELSE 0)])

titleSuggestions(rows, q) ==
  With(Limit(SortRows(SelectRows([i \in 1..Len(rows) |-> ScoredTitle(q, rows[i])],
                                 Positive),
                      ScoreDesc),
             TitleCap),
       LAMBDA top :
    [i \in 1..Len(top) |->
       [kind |-> top[i].kind, value |-> top[i].value, display |-> top[i].display,
        bookId |-> top[i].bookId]])

\* the series and the publisher facet: score = scoreMatch + count / 10
CountedSuggestions(kind, keys, q, cap) ==
  With(CountEntries(keys), LAMBDA counts :
    With(Limit(SortRows(SelectRows(
                 [i \in 1..Len(counts) |->
                    [kind |-> kind, value |-> counts[i].key, display |-> counts[i].key,
                     count |-> counts[i].count,
                     score |-> 10 * scoreMatch(q, counts[i].key) + counts[i].count]],
                 Positive), ScoreDesc), cap),
         LAMBDA top :
      [i \in 1..Len(top) |->
         [kind |-> top[i].kind, value |-> top[i].value, display |-> top[i].display,
          count |-> top[i].count]]))

seriesSuggestions(rows, q) ==
  CountedSuggestions("series",
    SelectRows([i \in 1..Len(rows) |-> rows[i].series], Truthy), q, SeriesCap)

publisherSuggestions(rows, q) ==
  CountedSuggestions("publisher",
    SelectRows([i \in 1..Len(rows) |-> getBookPublisher(rows[i])], Truthy),
    q, PublisherCap)

\* a list that puts the titles in front of the authors
BuildTitlesFirst(data, query) ==
  With(<<data, query>>, LAMBDA a :
    titleSuggestions(a[1], a[2]) \o authorSuggestions(a[1], a[2])
      \o seriesSuggestions(a[1], a[2]) \o publisherSuggestions(a[1], a[2]))

\* next = [...authorSuggestions, ...titleSuggestions, ...seriesSuggestions,
\*         ...publisherSuggestions]
BuildSuggestions(data, query) ==
  With(<<data, query>>, LAMBDA a :
    authorSuggestions(a[1], a[2]) \o titleSuggestions(a[1], a[2])
      \o seriesSuggestions(a[1], a[2]) \o publisherSuggestions(a[1], a[2]))

\* ------------------------------------------------------------------------
\* Search/Browse Controller (HomePage): state
\* ------------------------------------------------------------------------

VARIABLES
  envReady,        \* supabaseEnvReady: the store client exists
  search,          \* the query text
  suppress,        \* suppressSuggestOpenRef.current
  suggestions, suggestLoading, suggestOpen, activeIndex,
  books, loading, error,
  recentSearches,
  storage,         \* the localStorage item under recentStorageKey
  focused,         \* document.activeElement === inputRef.current
  rafPending,      \* a requestAnimationFrame(() => input.focus()) is queued
  sugTimers,       \* query texts of the pending 120 ms suggestion timers
  sugCleanup,      \* the last suggestion effect returned a cleanup
  sugInFlight,     \* bag of suggestion gateway calls awaiting their answer
  mainInFlight,    \* bag of main catalog fetches awaiting their answer
  recentTimers,    \* query texts of the pending 700 ms recent-search timers
  lastInput,       \* history: the kind of the last input that set the text
  fetchOutcome,    \* history: the outcome of the catalog fetch of the current text
  catalog,         \* the books table of the store; the page never writes to it
  gw               \* one call of the gateway, or of another function of the
                   \* module: its inputs and its result

ctlVars == <<envReady, search, suppress, suggestions, suggestLoading, suggestOpen,
             activeIndex, books, loading, error, recentSearches, storage, focused,
             rafPending, sugTimers, sugCleanup, sugInFlight, mainInFlight,
             recentTimers, lastInput, fetchOutcome, catalog>>

vars == <<ctlVars, gw>>

\* the controller's state as one record, so that a handler, the render that
\* follows it and the effects that render runs compose as functions
St ==
  [envReady |-> envReady, search |-> search, suppress |-> suppress,
   suggestions |-> suggestions, suggestLoading |-> suggestLoading,
   suggestOpen |-> suggestOpen, activeIndex |-> activeIndex, books |-> books,
   loading |-> loading, error |-> error, recentSearches |-> recentSearches,
   storage |-> storage, focused |-> focused, rafPending |-> rafPending,
   sugTimers |-> sugTimers, sugCleanup |-> sugCleanup,
   sugInFlight |-> sugInFlight, mainInFlight |-> mainInFlight,
   recentTimers |-> recentTimers, lastInput |-> lastInput,
   fetchOutcome |-> fetchOutcome]

Commit(n) ==
  /\ envReady' = n.envReady
  /\ search' = n.search
  /\ suppress' = n.suppress
  /\ suggestions' = n.suggestions
  /\ suggestLoading' = n.suggestLoading
  /\ suggestOpen' = n.suggestOpen
  /\ activeIndex' = n.activeIndex
  /\ books' = n.books
  /\ loading' = n.loading
  /\ error' = n.error
  /\ recentSearches' = n.recentSearches
  /\ storage' = n.storage
  /\ focused' = n.focused
  /\ rafPending' = n.rafPending
  /\ sugTimers' = n.sugTimers
  /\ sugCleanup' = n.sugCleanup
  /\ sugInFlight' = n.sugInFlight
  /\ mainInFlight' = n.mainInFlight
  /\ recentTimers' = n.recentTimers
  /\ lastInput' = n.lastInput
  /\ fetchOutcome' = n.fetchOutcome
  /\ UNCHANGED <<gw, catalog>>

\* const trimmed = useMemo(() => search.trim(), [search])
trimmed == Trim(search)

TrimmedOf(s) == Trim(s.search)

\* ------------------------------------------------------------------------
\* Search/Browse Controller: effects keyed on [trimmed]
\* ------------------------------------------------------------------------

\* the debounce and recent-search delays, in ms
SuggestDelay == 120
RecentDelay == 700

\* the caps of the suggestion and of the main gateway call, and the row
\* ceiling of the book list
SuggestLimit == 30
MainLimit == 250
RowCeiling == 600
RecentCap == 6

SuggestFields == <<"title", "series">>
MainFields == <<"title", "series", "notes">>

\* a suggestion gateway call in flight: the text it was issued for, the
\* cancelled flag of the effect run that issued it, and (history) whether the
\* trimmed text has changed since that effect run started
SugCall(q, cancelled, stale) == [q |-> q, cancelled |-> cancelled, stale |-> stale]

\* a main catalog fetch in flight: the text it was issued for, and (history)
\* whether the trimmed text has changed since it was issued
MainCall(q, stale) == [q |-> q, stale |-> stale]

BagOf(e) == SetToBag({e})

\* the bag with every element e replaced by F(e)
MapBag(bag, F(_)) ==
  With(bag, LAMBDA b :
    [x \in {F(e) : e \in BagToSet(b)} |->
       BagCardinality([e \in {d \in BagToSet(b) : F(d) = x} |-> b[e]])])

\* a cleanup that clears the timer and leaves the cancelled flag alone
ClearTimerOnly(s, q) == [s EXCEPT !.sugTimers = @ \ {q}]

\* the cleanup of the suggestion effect run for text q:
\*   cancelled = true; window.clearTimeout(t)
SuggestCleanup(s, q) ==
  LET cancel(c) == IF c.q = q /\ ~c.cancelled THEN SugCall(c.q, TRUE, c.stale) ELSE c
  IN [s EXCEPT !.sugTimers = @ \ {q},
               !.sugInFlight = MapBag(@, cancel)]

\* the body of the suggestion effect, run with the new trimmed text
SuggestEffect(s) ==
  LET q == TrimmedOf(s)
  IN IF s.suppress
     THEN [s EXCEPT !.suggestOpen = FALSE, !.suggestLoading = FALSE,
                    !.sugCleanup = FALSE]
     ELSE IF q = <<>>
     THEN [s EXCEPT !.suggestions = <<>>, !.suggestOpen = FALSE,
                    !.activeIndex = 0, !.sugCleanup = FALSE]
     ELSE [s EXCEPT !.sugTimers = @ \cup {q}, !.sugCleanup = TRUE]

\* a fetchBooks effect that sets its flags and issues no request
FetchBooksDeferred(s) ==
  [s EXCEPT !.loading = TRUE, !.error = NullErr, !.fetchOutcome = "none"]

\* the fetchBooks effect up to its first await: the flags it sets and the
\* request it issues
FetchBooksEffect(s) ==
  IF ~s.envReady
  THEN [s EXCEPT !.error = MissingEnv, !.loading = FALSE, !.fetchOutcome = "none"]
  ELSE [s EXCEPT !.loading = TRUE, !.error = NullErr,
                 !.mainInFlight = @ (+) BagOf(MainCall(TrimmedOf(s), FALSE)),
                 !.fetchOutcome = "pending"]

\* a recent-search effect without cleanup
RecentEffectKeepsTimer(s, prev) ==
  IF TrimmedOf(s) = <<>> THEN s
  ELSE [s EXCEPT !.recentTimers = @ \cup {TrimmedOf(s)}]

\* the recent-search effect: its cleanup clears the timer of the previous
\* text, its body sets a timer when the new text is not empty
RecentEffect(s, prev) ==
  LET cleared == [s EXCEPT !.recentTimers = @ \ {prev}]
  IN IF TrimmedOf(s) = <<>> THEN cleared
     ELSE [cleared EXCEPT !.recentTimers = @ \cup {TrimmedOf(s)}]

\* history: every call in flight now belongs to a superseded text
Supersede(s) ==
  LET mark(c) == SugCall(c.q, c.cancelled, TRUE)
      markMain(c) == MainCall(c.q, TRUE)
  IN [s EXCEPT !.sugInFlight = MapBag(@, mark),
               !.mainInFlight = MapBag(@, markMain)]

\* an effect flush that runs the bodies and skips the suggestion cleanup
EffectsWithoutCleanup(s, prev) ==
  With(Supersede(s), LAMBDA marked :
    With(SuggestEffect(marked), LAMBDA suggested :
      With(FetchBooksEffect(suggested), LAMBDA fetched :
        RecentEffect(fetched, prev))))

\* the effects React runs after a render in which trimmed changed from prev
RunEffects(s, prev) ==
  With(IF s.sugCleanup THEN SuggestCleanup(s, prev) ELSE s, LAMBDA cleaned :
    With(Supersede(cleaned), LAMBDA marked :
      With(SuggestEffect(marked), LAMBDA suggested :
        With(FetchBooksEffect(suggested), LAMBDA fetched :
          RecentEffect(fetched, prev)))))

\* the render after a handler: the effects run only when trimmed changed
Render(handled, prev) ==
  With(handled, LAMBDA s : IF TrimmedOf(s) = prev THEN s ELSE RunEffects(s, prev))

\* ------------------------------------------------------------------------
\* Search/Browse Controller: handlers
\* ------------------------------------------------------------------------

\* an onChange that leaves the suppression flag as it is
onChangeKeepsFlag(s, text) ==
  [s EXCEPT !.search = text, !.lastInput = "typed"]

\* onChange of the input
onChange(s, text) ==
  [s EXCEPT !.suppress = FALSE, !.search = text, !.lastInput = "typed"]

\* onFocus of the input
onFocus(s) ==
  IF s.suggestions # <<>> THEN [s EXCEPT !.suggestOpen = TRUE] ELSE s

\* inputRef.current?.focus(): the focus event fires only when the input did
\* not have the focus
FocusInput(s) ==
  IF s.focused THEN s ELSE onFocus([s EXCEPT !.focused = TRUE])

\* a selection that keeps the active index
applyKeepingIndex(s, sug) ==
  [s EXCEPT !.suppress = TRUE, !.search = sug.value, !.suggestOpen = FALSE,
            !.rafPending = TRUE, !.lastInput = "selected"]

applySuggestion(s, sug) ==
  [s EXCEPT !.suppress = TRUE, !.search = sug.value, !.suggestOpen = FALSE,
            !.activeIndex = 0, !.rafPending = TRUE, !.lastInput = "selected"]

applyQuickSearch(s, value) ==
  [s EXCEPT !.suppress = TRUE, !.search = value, !.suggestOpen = FALSE,
            !.activeIndex = 0, !.rafPending = TRUE, !.lastInput = "quick"]

\* the window mousedown listener, for a target outside the input and the
\* suggestion box; the click also takes the focus from the input
onOutsideMouseDown(s) == [s EXCEPT !.suggestOpen = FALSE, !.focused = FALSE]

Min(a, b) == IF a < b THEN a ELSE b
Max(a, b) == IF a > b THEN a ELSE b

\* suggestions[activeIndex]: undefined outside the list (indices from 0)
HasActive(s) == s.activeIndex >= 0 /\ s.activeIndex < Len(s.suggestions)

onKeyDown(s, key) ==
  IF ~s.suggestOpen /\ key \in {"ArrowDown", "ArrowUp"}
  THEN (IF s.suggestions # <<>> THEN [s EXCEPT !.suggestOpen = TRUE] ELSE s)
  ELSE IF ~s.suggestOpen THEN s
  ELSE CASE key = "ArrowDown" ->
              [s EXCEPT !.activeIndex = Min(@ + 1, Len(s.suggestions) - 1)]
         [] key = "ArrowUp" -> [s EXCEPT !.activeIndex = Max(@ - 1, 0)]
         [] key = "Enter" ->
              IF HasActive(s) THEN applySuggestion(s, s.suggestions[s.activeIndex + 1])
              ELSE s
         [] key = "Escape" -> [s EXCEPT !.suggestOpen = FALSE]
         [] OTHER -> s

\* JSON.stringify / JSON.parse of the stored list
NoItem == [json |-> "null", items |-> <<>>]
JsonStringify(list) == [json |-> "array", items |-> list]

\* a store that puts the term in front without removing its older entry
storeWithoutFilter(s, value) ==
  IF Trim(value) = <<>> THEN s
  ELSE With(Limit(<<Trim(value)>> \o s.recentSearches, RecentCap), LAMBDA next :
         [s EXCEPT !.recentSearches = next, !.storage = JsonStringify(next)])

storeRecentSearch(s, value) ==
  LET cleaned == Trim(value)
      other(item) == item # cleaned
      next == Limit(<<cleaned>> \o SelectRows(s.recentSearches, other), RecentCap)
  IN IF cleaned = <<>> THEN s
     ELSE [s EXCEPT !.recentSearches = next, !.storage = JsonStringify(next)]

\* the mount effect that reads the stored list: parsed.filter(item => !!item)
LoadRecent(item) ==
  IF item.json = "array" THEN SelectRows(item.items, Truthy) ELSE <<>>

\* the timer callback of the suggestion effect up to its await
suggestTimerFired(s, q) ==
  [s EXCEPT !.sugTimers = @ \ {q}, !.suggestLoading = TRUE,
            !.sugInFlight = @ (+) BagOf(SugCall(q, FALSE, FALSE))]

\* a callback that sets the timer again when its fetch failed
suggestAnsweredRetries(s, call, result) ==
  IF call.cancelled THEN s
  ELSE IF Failed(result)
  THEN [s EXCEPT !.suggestions = <<>>, !.suggestLoading = FALSE,
                 !.suggestOpen = FALSE, !.sugTimers = @ \cup {call.q}]
  ELSE [s EXCEPT !.suggestions = BuildSuggestions(result.data, call.q),
                 !.suggestLoading = FALSE,
                 !.suggestOpen = IF s.focused THEN TRUE ELSE @,
                 !.activeIndex = 0]

\* the timer callback of the suggestion effect after its await
suggestAnswered(s, call, result) ==
  IF call.cancelled THEN s
  ELSE IF Failed(result)
  THEN [s EXCEPT !.suggestions = <<>>, !.suggestLoading = FALSE,
                 !.suggestOpen = FALSE]
  ELSE [s EXCEPT !.suggestions = BuildSuggestions(result.data, call.q),
                 !.suggestLoading = FALSE,
                 !.suggestOpen = IF s.focused THEN TRUE ELSE @,
                 !.activeIndex = 0]

\* (sort_title ?? title).localeCompare(...) < 0
TitleKey(b) == IF b.sort_title # Null THEN b.sort_title ELSE b.title
TitleKeyBefore(a, b) == StrLess(TitleKey(a), TitleKey(b))

\* an answer handler that shows the rows as the gateway hands them over
searchAnsweredUnsorted(s, result) ==
  LET shown == IF Failed(result) THEN [s EXCEPT !.error = result.error]
               ELSE [s EXCEPT !.books = Limit(result.data, RowCeiling)]
  IN [shown EXCEPT !.loading = FALSE]

\* an answer handler that empties the book list when the fetch failed
searchAnsweredClears(s, result) ==
  IF Failed(result)
  THEN [s EXCEPT !.error = result.error, !.books = <<>>, !.loading = FALSE]
  ELSE [s EXCEPT !.books = Limit(SortRows(result.data, TitleKeyBefore), RowCeiling),
                 !.loading = FALSE]

\* fetchBooks after its await, for a non-empty trimmed text
searchAnswered(s, result) ==
  LET shown == IF Failed(result) THEN [s EXCEPT !.error = result.error]
               ELSE [s EXCEPT !.books =
                       Limit(SortRows(result.data, TitleKeyBefore), RowCeiling)]
  IN [shown EXCEPT !.loading = FALSE]

\* fetchBooks after its await, for the empty text: the unfiltered list
browseAnswered(s, result) ==
  LET shown == IF Failed(result) THEN [s EXCEPT !.error = result.error]
               ELSE [s EXCEPT !.books = result.data]
  IN [shown EXCEPT !.loading = FALSE]

\* fetchBooks after its await
fetchAnswered(s, q, result) ==
  IF q = <<>> THEN browseAnswered(s, result) ELSE searchAnswered(s, result)

\* history: the answer of the fetch of the current text settles its outcome
Settle(s, call, result) ==
  IF call.stale THEN s
  ELSE [s EXCEPT !.fetchOutcome = IF Failed(result) THEN "failed" ELSE "ok"]

\* from('books').select(bookSelect).order('sort_title').limit(600)
StoreBrowse(db, net) ==
  StoreAnswer(net, "books", Limit(SortRows(db, SortTitleBefore), RowCeiling))

\* groupStats: the labels of the "explore by" panel, the twelve most frequent
\* author names or publisher names of the loaded books
GroupCap == 12

GroupBefore(a, b) ==
  a.count > b.count \/ (a.count = b.count /\ StrLess(a.key, b.key))

Named(e) == Trim(e.key) # <<>>

GroupLabels(loaded, mode) ==
  With(IF mode = "author"
       THEN Flatten([i \in 1..Len(loaded) |-> getBookAuthors(loaded[i])])
       ELSE SelectRows([i \in 1..Len(loaded) |-> getBookPublisher(loaded[i])], Truthy),
       LAMBDA names :
    With(Limit(SortRows(SelectRows(CountEntries(names), Named), GroupBefore), GroupCap),
         LAMBDA top : {top[i].key : i \in 1..Len(top)}))

\* ------------------------------------------------------------------------
\* The data the model runs on
\* ------------------------------------------------------------------------

\* the books table: "ab" by author "a", and "b"
Catalog ==
  << Book(1, <<"a", "b">>, Null, Null, Null, 0, Null,
          << Contributor("author", NullOrder, <<"a">>, Null) >>),
     Book(2, <<"b">>, Null, Null, Null, 0, Null, <<>>) >>

\* the texts the user types
Texts == { <<>>, <<"a">>, <<"a", " ">>, <<"a", "b">> }

\* the requests a gateway call or the browse fetch sends to the store
Requests ==
  {"title", "series", "notes", "authors.display_name", "authors.sort_name",
   "books.id", "publishers.name", "books.publisher_id", "books"}

\* every request succeeds
NoFailure == [r \in Requests |-> NullErr]

\* the requests in F fail, each with an error whose message names it
Failing(F) == [r \in Requests |-> IF r \in F THEN r ELSE NullErr]

\* the store's behaviours the controller is run against
CtlNets == {NoFailure, Failing({"title", "books"})}

\* at most this many gateway calls and catalog fetches await their answer at
\* once
MaxInFlight == 2

GwIdle == [pc |-> "idle"]

\* ------------------------------------------------------------------------
\* Search/Browse Controller: the state after mount, and the actions
\* ------------------------------------------------------------------------

\* the state after the first render and its effects: the suggestion effect
\* takes its empty-text branch, fetchBooks issues the browse fetch, the stored
\* recent searches are loaded
Mounted(env, item) ==
  FetchBooksEffect(
    [envReady |-> env, search |-> <<>>, suppress |-> FALSE, suggestions |-> <<>>,
     suggestLoading |-> FALSE, suggestOpen |-> FALSE, activeIndex |-> 0,
     books |-> <<>>, loading |-> FALSE, error |-> NullErr,
     recentSearches |-> LoadRecent(item), storage |-> item, focused |-> FALSE,
     rafPending |-> FALSE, sugTimers |-> {}, sugCleanup |-> FALSE,
     sugInFlight |-> EmptyBag, mainInFlight |-> EmptyBag, recentTimers |-> {},
     lastInput |-> "none", fetchOutcome |-> "none"])

StartAt(n) ==
  /\ envReady = n.envReady
  /\ search = n.search
  /\ suppress = n.suppress
  /\ suggestions = n.suggestions
  /\ suggestLoading = n.suggestLoading
  /\ suggestOpen = n.suggestOpen
  /\ activeIndex = n.activeIndex
  /\ books = n.books
  /\ loading = n.loading
  /\ error = n.error
  /\ recentSearches = n.recentSearches
  /\ storage = n.storage
  /\ focused = n.focused
  /\ rafPending = n.rafPending
  /\ sugTimers = n.sugTimers
  /\ sugCleanup = n.sugCleanup
  /\ sugInFlight = n.sugInFlight
  /\ mainInFlight = n.mainInFlight
  /\ recentTimers = n.recentTimers
  /\ lastInput = n.lastInput
  /\ fetchOutcome = n.fetchOutcome

Init ==
  /\ \E env \in BOOLEAN : \E n \in {Mounted(env, NoItem)} : StartAt(n)
  /\ gw = GwIdle
  /\ catalog = Catalog

CanIssue ==
  BagCardinality(mainInFlight) + BagCardinality(sugInFlight) < MaxInFlight

\* the suggestion list is on screen
ListShown ==
  /\ suggestOpen
  /\ trimmed # <<>>
  /\ ~(suggestions = <<>> /\ ~suggestLoading)

\* the user edits the text of the focused input
Type(text) ==
  /\ focused
  /\ text # search
  /\ CanIssue
  /\ \E n \in {Render(onChange(St, text), trimmed)} : Commit(n)

\* the user moves the focus into the input
Focus ==
  /\ ~focused
  /\ \E n \in {FocusInput(St)} : Commit(n)

\* the focus leaves the input without a mouse press (Tab)
Blur ==
  /\ focused
  /\ \E n \in {[St EXCEPT !.focused = FALSE]} : Commit(n)

\* a mouse press outside the input and the suggestion box
OutsideMouseDown ==
  \E n \in {onOutsideMouseDown(St)} : Commit(n)

\* a key pressed in the focused input
KeyDown(key) ==
  /\ focused
  /\ CanIssue
  /\ \E n \in {Render(onKeyDown(St, key), trimmed)} : Commit(n)

\* the pointer enters entry idx (from 0) of the suggestion list
MouseEnter(idx) ==
  /\ ListShown
  /\ idx < Len(suggestions)
  /\ \E n \in {[St EXCEPT !.activeIndex = idx]} : Commit(n)

\* a click on entry idx (from 0) of the suggestion list; its mousedown is
\* default-prevented, so the focus stays where it is
ClickSuggestion(idx) ==
  /\ ListShown
  /\ idx < Len(suggestions)
  /\ CanIssue
  /\ \E n \in {Render(applySuggestion(St, suggestions[idx + 1]), trimmed)} : Commit(n)

\* a click on a recent search or on an "explore by" entry (of either group
\* mode), both shown only while the trimmed text is empty
QuickValues ==
  Range(recentSearches) \cup GroupLabels(books, "author")
    \cup GroupLabels(books, "publisher")

QuickSearch(value) ==
  /\ trimmed = <<>>
  /\ value \in QuickValues
  /\ CanIssue
  /\ \E n \in {Render(applyQuickSearch(onOutsideMouseDown(St), value), trimmed)} : Commit(n)

\* the animation frame queued by applySuggestion / applyQuickSearch
AnimationFrame ==
  /\ rafPending
  /\ \E n \in {FocusInput([St EXCEPT !.rafPending = FALSE])} : Commit(n)

\* a suggestion debounce timer expires
SuggestTimer(q) ==
  /\ q \in sugTimers
  /\ CanIssue
  /\ \E n \in {suggestTimerFired(St, q)} : Commit(n)

\* the gateway call of a suggestion fetch returns
SuggestResult(q, net) ==
  fetchBooksForSearch(envReady, catalog, net, q, SuggestFields, SuggestLimit)

SuggestAnswer(call, net) ==
  /\ BagIn(call, sugInFlight)
  /\ \E result \in {SuggestResult(call.q, net)} :
       \E n \in {suggestAnswered([St EXCEPT !.sugInFlight = @ (-) BagOf(call)],
                                 call, result)} : Commit(n)

\* a main catalog fetch returns
MainResult(q, net) ==
  IF q = <<>> THEN StoreBrowse(catalog, net)
  ELSE fetchBooksForSearch(envReady, catalog, net, q, MainFields, MainLimit)

MainAnswer(call, net) ==
  /\ BagIn(call, mainInFlight)
  /\ \E result \in {MainResult(call.q, net)} :
       \E n \in {Settle(fetchAnswered([St EXCEPT !.mainInFlight = @ (-) BagOf(call)],
                                      call.q, result),
                        call, result)} : Commit(n)

\* a recent-search timer expires; it was set together with the suggestion
\* timer of the same text, which has the shorter delay and expires first
RecentTimer(q) ==
  /\ q \in recentTimers
  /\ SuggestDelay < RecentDelay => q \notin sugTimers
  /\ \E n \in {storeRecentSearch([St EXCEPT !.recentTimers = @ \ {q}], q)} : Commit(n)

\* the page is loaded again: the component mounts afresh, the item in
\* localStorage stays
Reload ==
  \E n \in {Mounted(envReady, storage)} : Commit(n)

Keys == {"ArrowDown", "ArrowUp", "Enter", "Escape"}

Next ==
  \/ \E text \in Texts : Type(text)
  \/ Focus
  \/ Blur
  \/ OutsideMouseDown
  \/ \E key \in Keys : KeyDown(key)
  \/ \E idx \in 0..(Len(suggestions) - 1) : MouseEnter(idx)
  \/ \E idx \in 0..(Len(suggestions) - 1) : ClickSuggestion(idx)
  \/ \E value \in QuickValues : QuickSearch(value)
  \/ \E q \in sugTimers : SuggestTimer(q)
  \/ \E call \in BagToSet(sugInFlight), net \in CtlNets : SuggestAnswer(call, net)
  \/ \E call \in BagToSet(mainInFlight), net \in CtlNets : MainAnswer(call, net)
  \/ \E q \in recentTimers : RecentTimer(q)
  \/ AnimationFrame
  \/ Reload

Spec == Init /\ [][Next]_vars

\* the page run against a books table of one book, "a" by "a", whose series
\* is a single space: the text "ab" finds nothing in it
BlankSeries ==
  << Book(1, <<"a">>, Null, <<" ">>, Null, 0, Null,
          << Contributor("author", NullOrder, <<"a">>, Null) >>) >>

InitBlank ==
  /\ \E env \in BOOLEAN : \E n \in {Mounted(env, NoItem)} : StartAt(n)
  /\ gw = GwIdle
  /\ catalog = BlankSeries

SpecBlank == InitBlank /\ [][Next]_vars

\* the page when the user also types white space behind the title "ab"
NextTrailing ==
  \/ focused /\ Type(<<"a", "b", " ">>)
  \/ Next

SpecTrailing == Init /\ [][NextTrailing]_vars

\* ------------------------------------------------------------------------
\* Remote Query Gateway: one call of fetchBooksForSearch against a store in
\* which some requests fail
\* ------------------------------------------------------------------------

\* the books table of the gateway runs: "ab" by author "a", published by "b",
\* and "b" without author or publisher
GwCatalog ==
  << Book(1, <<"a", "b">>, Null, Null, Null, 1, <<"b">>,
          << Contributor("author", NullOrder, <<"a">>, Null) >>),
     Book(2, <<"b">>, Null, Null, Null, 0, Null, <<>>) >>

GwTexts == { <<"a">>, <<"b">>, <<"c">>, <<" ", "b">> }

GwRequests == Requests \ {"books"}

\* at most this many of the requests fail in one run
MaxFailures == 2

GwNets == {Failing(F) : F \in {G \in SUBSET GwRequests : Cardinality(G) <= MaxFailures}}

GwCall(client, q, fields, net) ==
  /\ gw.pc = "idle"
  /\ gw' = [pc |-> "called", client |-> client, q |-> q, fields |-> fields,
            net |-> net]
  /\ UNCHANGED ctlVars

GwReturn ==
  /\ gw.pc = "called"
  /\ gw' = [pc |-> "returned", client |-> gw.client, q |-> gw.q,
            fields |-> gw.fields, net |-> gw.net,
            result |-> fetchBooksForSearch(gw.client, GwCatalog, gw.net, gw.q,
                                           gw.fields, SuggestLimit)]
  /\ UNCHANGED ctlVars

GwDone ==
  /\ gw.pc = "returned"
  /\ gw' = GwIdle
  /\ UNCHANGED ctlVars

NextGateway ==
  \/ \E client \in BOOLEAN, q \in GwTexts, fields \in {SuggestFields, MainFields},
        net \in GwNets : GwCall(client, q, fields, net)
  \/ GwReturn
  \/ GwDone

SpecGateway == Init /\ [][NextGateway]_vars

\* ------------------------------------------------------------------------
\* Recent-Search Store: storeRecentSearch and the load at mount, applied to
\* any sequence of terms
\* ------------------------------------------------------------------------

RecentTerms ==
  { <<>>, <<" ">>, <<"a">>, <<"a", " ">>, <<"b">>, <<"a", "b">>, <<"b", "a">>,
    <<"a", "a">>, <<"b", "b">>, <<"a", " ", "b">> }

\* the recent-search timer of the current text fires, whatever the text is
AcceptSearch(value) ==
  \E n \in {storeRecentSearch(St, value)} : Commit(n)

NextRecent ==
  \/ \E value \in RecentTerms : AcceptSearch(value)
  \/ Reload

SpecRecent == Init /\ [][NextRecent]_vars

\* ------------------------------------------------------------------------
\* The functions of the module, each applied to any input of a bounded set.
\* gw holds the call under way: its arguments and its result.
\* ------------------------------------------------------------------------

\* the ids of the rows the sub-queries of one gateway call return
JoinIds == {1, 2, 3}

\* a sub-query returns at most this many rows
MaxPartLen == 2

\* the results a sub-query can return without error: rows with distinct ids.
\* Each row carries, besides its id, the sub-query that returned it, which
\* tells the copies of a book apart.
JoinParts(from) ==
  {Resp(TRUE, [k \in 1..Len(ids) |-> [id |-> ids[k], from |-> from]], NullErr) :
     ids \in {s \in UNION {[1..n -> JoinIds] : n \in 0..MaxPartLen} :
                \A i, j \in 1..Len(s) : i # j => s[i] # s[j]}}

\* the three sub-queries of fetchBooksForSearch have answered without error
JoinCall(bookFieldResult, authorResult, publisherResult) ==
  /\ gw.pc = "idle"
  /\ gw' = [pc |-> "joined",
            parts |-> <<bookFieldResult, authorResult, publisherResult>>,
            result |-> JoinSearchResults(bookFieldResult, authorResult,
                                         publisherResult)]
  /\ UNCHANGED ctlVars

\* the characters of the strings scoreMatch is applied to
ScoreChars == {"a", "b", " ", "A", "e", "é"}

\* the longest query and the longest candidate scoreMatch is applied to
MaxQueryLen == 2
MaxCandidateLen == 3

\* the strings of at most n characters
Strings(n) == UNION {[1..k -> ScoreChars] : k \in 0..n}

ScoreCall(query, candidate) ==
  /\ gw.pc = "idle"
  /\ gw' = [pc |-> "scored", query |-> query, candidate |-> candidate,
            result |-> scoreMatch(query, candidate)]
  /\ UNCHANGED ctlVars

\* the digits, as characters
Digit == <<"1", "2", "3", "4", "5", "6", "7", "8", "9">>

IsaacAsimov == <<"I", "s", "a", "a", "c", " ", "A", "s", "i", "m", "o", "v">>
AsimovIsaac == <<"A", "s", "i", "m", "o", "v", ",", " ", "I", "s", "a", "a", "c">>
Asimov == <<"a", "s", "i", "m", "o", "v">>

\* the books table the suggestions are built from.  Books 1 to 9 are titled
\* "a1" to "a9"; books 1 to 7 are by the authors "a1" to "a7" (sort names
\* "1a" to "7a"), book 8 by "a1" again, with the sort name "a", and book 9 by
\* "a7" again; books 1 to 5 are in the series "s1" to "s5", books 6 and 7 in "as";
\* the publishers are "p1" to "p4" and "ap".  Book 10, "f", is edited by "e"
\* and written by Isaac Asimov.
ShelfBook(k) ==
  LET who == IF k <= 7 THEN k ELSE IF k = 8 THEN 1 ELSE 7
      pub == ((k - 1) % 5) + 1
  IN Book(k, <<"a", Digit[k]>>, Null,
          IF k <= 5 THEN <<"s", Digit[k]>> ELSE IF k <= 7 THEN <<"a", "s">> ELSE Null,
          Null, pub,
          IF pub = 5 THEN <<"a", "p">> ELSE <<"p", Digit[pub]>>,
          << Contributor("author", NullOrder, <<"a", Digit[who]>>,
                         IF k = 8 THEN <<"a">> ELSE <<Digit[who], "a">>) >>)

Shelf ==
  [k \in 1..9 |-> ShelfBook(k)]
    \o << Book(10, <<"f">>, Null, Null, Null, 0, Null,
                << Contributor("editor", 1, <<"e">>, <<"e">>),
                   Contributor("author", 2, IsaacAsimov, AsimovIsaac) >>) >>

\* the books of one series of a big publisher
CrowdSize == 152

\* the books table of a big publisher, "a": CrowdSize books of its series
\* "b a", and one book of its series "ab"
Crowd ==
  [k \in 1..CrowdSize |->
     Book(k, <<"t">>, Null, <<"b", " ", "a">>, Null, 1, <<"a">>, <<>>)]
    \o << Book(CrowdSize + 1, <<"t">>, Null, <<"a", "b">>, Null, 1, <<"a">>, <<>>) >>

\* the tables the store can hold: the runs of consecutive books of the shelf,
\* and the books of the big publisher
Shelves ==
  {<<>>} \cup {SubSeq(Shelf, i, j) : i, j \in 1..Len(Shelf)} \cup {Crowd}

\* the trimmed texts suggestions are asked for
ShelfTexts == { <<"a">>, <<"1">>, <<"s">>, <<"f">>, Asimov }

\* the suggestion timer callback for text q against the table db, the focus
\* and the cancellation left aside: the rows of fetchBooksForSearch, and the
\* list built from them
AggregateCall(db, q) ==
  /\ gw.pc = "idle"
  /\ \E found \in {fetchBooksForSearch(TRUE, db, NoFailure, q, SuggestFields,
                                         SuggestLimit)} :
       gw' = [pc |-> "aggregated", q |-> q, rows |-> found.data,
              result |-> BuildSuggestions(found.data, q)]
  /\ UNCHANGED ctlVars

\* the contributors getBookAuthors is applied to: either role, a credit order
\* or none, and a person with both names, a sort name only, no name, or an
\* empty display name
Credits ==
  {Contributor(role, order, names[1], names[2]) :
     role \in {"author", "editor"}, order \in {NullOrder, 1, 2},
     names \in { <<<<"a">>, <<"b">>>>, <<Null, <<"c">>>>, <<Null, Null>>,
                 <<<<>>, <<"d">>>> }}

\* a book has at most this many contributors
MaxCredits == 3

AuthorsCall(contributors) ==
  /\ gw.pc = "idle"
  /\ \E book \in {Book(1, <<"t">>, Null, Null, Null, 0, Null, contributors)} :
       gw' = [pc |-> "credited", book |-> book, result |-> getBookAuthors(book)]
  /\ UNCHANGED ctlVars

\* a table whose store order, title order and sort-key order all differ: "ba"
\* and "b" are by the author "a", "ab" has the sort key "bb", "Ab" the sort key
\* "a", and "aa" has "a" in its notes
Stacks ==
  << Book(1, <<"b", "a">>, Null, Null, Null, 0, Null,
          << Contributor("author", NullOrder, <<"a">>, Null) >>),
     Book(2, <<"a", "b">>, <<"b", "b">>, Null, Null, 0, Null, <<>>),
     Book(3, <<"b">>, Null, Null, Null, 0, Null,
          << Contributor("author", NullOrder, <<"a">>, Null) >>),
     Book(4, <<"a", "a">>, Null, Null, <<"a">>, 0, Null, <<>>),
     Book(5, <<"A", "b">>, <<"a">>, Null, Null, 0, Null, <<>>) >>

\* the books of the publisher "a", one more than the page shows: all are
\* called "b" but the last one, "a"
Hoard ==
  [k \in 1..(RowCeiling + 1) |->
     Book(k, IF k = RowCeiling + 1 THEN <<"a">> ELSE <<"b">>, Null, Null, Null,
          1, <<"a">>, <<>>)]

\* fetchBooks for the non-empty text q against the table db, from its gateway
\* call on: the rows of fetchBooksForSearch and the book list shown
MainListCall(db, q) ==
  /\ gw.pc = "idle"
  /\ \E found \in {fetchBooksForSearch(TRUE, db, NoFailure, q, MainFields,
                                         MainLimit)} :
       gw' = [pc |-> "listed", q |-> q, rows |-> found.data,
              result |-> searchAnswered(St, found).books]
  /\ UNCHANGED ctlVars

\* the result of the call is consumed
FnDone ==
  /\ gw.pc \notin {"idle", "called", "returned"}
  /\ gw' = GwIdle
  /\ UNCHANGED ctlVars

NextFunctions ==
  \/ /\ gw.pc = "idle"
     /\ \E r1 \in JoinParts("field"), r2 \in JoinParts("author"),
           r3 \in JoinParts("publisher") : JoinCall(r1, r2, r3)
  \/ /\ gw.pc = "idle"
     /\ \E query \in Strings(MaxQueryLen), candidate \in Strings(MaxCandidateLen) :
           ScoreCall(query, candidate)
  \/ /\ gw.pc = "idle"
     /\ \E db \in Shelves, q \in ShelfTexts : AggregateCall(db, q)
  \/ /\ gw.pc = "idle"
     /\ \E contributors \in UNION {[1..n -> Credits] : n \in 0..MaxCredits} :
           AuthorsCall(contributors)
  \/ /\ gw.pc = "idle"
     /\ \E db \in {SubSeq(Stacks, i, j) : i, j \in 1..Len(Stacks)} \cup {Hoard},
           q \in { <<"a">>, <<"b">> } : MainListCall(db, q)
  \/ FnDone

SpecFunctions == Init /\ [][NextFunctions]_vars

\* ------------------------------------------------------------------------
\* AI Query Relay (POST /api/ai-query): one request at a time
\* ------------------------------------------------------------------------

\* a text of the relay is a sequence of these characters
RelayTexts(n) == UNION {[1..k -> {"a", "b", " "}] : k \in 0..n}

\* a question, and a generated text, has at most this many characters
MaxQuestionLen == 2

\* an absent (undefined) message of an error object
NoMessage == "undefined"

\* the request bodies: text that is not JSON, the JSON null, a JSON scalar,
\* and an object whose question is absent, a number or a string
RelayBodies ==
  {[json |-> j, question |-> [type |-> "undefined", text |-> <<>>]] :
     j \in {"invalid", "null", "scalar", "object"}}
  \cup {[json |-> "object", question |-> [type |-> "number", text |-> <<"7">>]]}
  \cup {[json |-> "object", question |-> [type |-> "string", text |-> t]] :
          t \in RelayTexts(MaxQuestionLen)}

\* what client.responses.create does: it resolves to a response whose
\* output_text is absent or a text, or it throws an error that carries a
\* message in any of the three places the handler looks at
RelayOutcomes ==
  {[kind |-> "response", output_text |-> t, err |-> <<>>] :
     t \in {Null} \cup RelayTexts(MaxQuestionLen)}
  \cup {[kind |-> "throws", output_text |-> Null,
         err |-> <<m1, m2, m3>>] :
          m1 \in {NoMessage, "", "quota"}, m2 \in {NoMessage, "", "denied"},
          m3 \in {NoMessage, "", "timeout"}}

credentialUnchecked(key) == FALSE

\* !process.env.OPENAI_API_KEY
misconfigured(key) == ~key

\* body = await req.json().catch(() => ({}));
\* question = typeof body?.question === "string" ? body.question : ""
questionOf(body) ==
  IF body.json = "object" /\ body.question.type = "string"
  THEN body.question.text
  ELSE <<>>

missingQuestionUntrimmed(question) == question = <<>>

\* !question.trim()
missingQuestion(question) == Trim(question) = <<>>

answerUntrimmed(output_text) ==
  IF output_text = Null \/ output_text = <<>>
  THEN <<"I couldn't generate an answer for that.">>
  ELSE output_text

\* text = (response.output_text ?? "").trim(); answer: text || fallback
answerOf(output_text) ==
  With(IF output_text = Null THEN <<>> ELSE Trim(output_text), LAMBDA text :
    IF text = <<>> THEN <<"I couldn't generate an answer for that.">> ELSE text)

errorDetailUnchecked(err) == IF err[1] # NoMessage THEN err[1] ELSE err[3]

\* err?.error?.message || err?.response?.data?.error?.message ||
\* err?.message || "OpenAI request failed"
errorDetail(err) ==
  IF err[1] \notin {NoMessage, ""} THEN err[1]
  ELSE IF err[2] \notin {NoMessage, ""} THEN err[2]
  ELSE IF err[3] \notin {NoMessage, ""} THEN err[3]
  ELSE "OpenAI request failed"

\* NextResponse.json(...)
ErrorResponse(status, message) ==
  [status |-> status, error |-> message, answer |-> Null]

\* POST up to its first return or to the await of client.responses.create.
\* lookups are the catalog queries the handler has issued and calls the
\* requests it has sent to the completion API
RelayPost(key, body) ==
  /\ gw.pc = "idle"
  /\ \E rq \in {[key |-> key, body |-> body, lookups |-> <<>>,
                 outcome |-> [kind |-> "none", output_text |-> Null, err |-> <<>>]]} :
       gw' =
         IF misconfigured(key)
         THEN [pc |-> "answered", calls |-> <<>>,
               responses |-> <<ErrorResponse(500,
                  "Server misconfigured: OPENAI_API_KEY is missing.")>>] @@ rq
         ELSE IF missingQuestion(questionOf(body))
         THEN [pc |-> "answered", calls |-> <<>>,
               responses |-> <<ErrorResponse(400, "Missing question")>>] @@ rq
         ELSE [pc |-> "awaiting",
               calls |-> <<[model |-> "gpt-4.1-mini",
                            input |-> <<[role |-> "user",
                                         content |-> questionOf(body)]>>,
                            temperature |-> "0.3",
                            max_output_tokens |-> 500]>>,
               responses |-> <<>>] @@ rq
  /\ UNCHANGED ctlVars

\* POST after the await: the response is relayed, or the catch block answers
RelayCompleted(outcome) ==
  /\ gw.pc = "awaiting"
  /\ gw' = [gw EXCEPT
              !.pc = "answered",
              !.outcome = outcome,
              !.responses =
                 IF outcome.kind = "response"
                 THEN <<[status |-> 200, error |-> NoMessage,
                         answer |-> answerOf(outcome.output_text)]>>
                 ELSE <<ErrorResponse(500, errorDetail(outcome.err))>>]
  /\ UNCHANGED ctlVars

\* the response has been sent
RelayDone ==
  /\ gw.pc = "answered"
  /\ gw' = GwIdle
  /\ UNCHANGED ctlVars

NextRelay ==
  \/ /\ gw.pc = "idle"
     /\ \E key \in BOOLEAN, body \in RelayBodies : RelayPost(key, body)
  \/ /\ gw.pc = "awaiting"
     /\ \E outcome \in RelayOutcomes : RelayCompleted(outcome)
  \/ RelayDone

SpecRelay == Init /\ [][NextRelay]_vars

\* ------------------------------------------------------------------------
\* AI panel (AiPanel): the form that sends a question to the relay
\* ------------------------------------------------------------------------

\* the responses POST can give to a question when the credential is
\* configured (key) or not
relayResponses(question) ==
  {ErrorResponse(500, "Server misconfigured: OPENAI_API_KEY is missing.")}
  \cup (IF missingQuestion(question)
        THEN {ErrorResponse(400, "Missing question")}
        ELSE {IF o.kind = "response"
              THEN [status |-> 200, error |-> NoMessage,
                    answer |-> answerOf(o.output_text)]
              ELSE ErrorResponse(500, errorDetail(o.err)) : o \in RelayOutcomes})

\* what the two awaits of askAi can end in: fetch rejects, res.json() rejects
\* (the body is not JSON), or the body of a response of the relay is read
PanelReplies(question) ==
  {[kind |-> "rejected", message |-> "Failed to fetch", status |-> 0,
    error |-> NoMessage, answer |-> Null],
   [kind |-> "notjson", message |-> "Unexpected token", status |-> 500,
    error |-> NoMessage, answer |-> Null]}
  \cup {[kind |-> "json", message |-> NoMessage, status |-> r.status,
         error |-> r.error, answer |-> r.answer] : r \in relayResponses(question)}

\* the user submits the form at most this many times
MaxSubmits == 3

\* the panel after its first render; sent holds the questions of the requests
\* awaiting their response, submits counts the submit events
PanelMounted ==
  [pc |-> "panel", question |-> <<>>, loading |-> FALSE, error |-> NullErr,
   answer |-> Null, sent |-> <<>>, submits |-> 0]

submitNeverDisabled(panel) == FALSE

\* disabled={state.loading} of the submit button
submitDisabled(panel) == panel.loading

\* askAi up to its first await
askAi(panel) ==
  IF Trim(panel.question) = <<>> THEN panel
  ELSE [panel EXCEPT !.loading = TRUE, !.error = NullErr, !.answer = Null,
                     !.sent = Append(@, panel.question)]

\* askAi after its awaits, for the request at place i of sent
askAiAnswered(panel, i, reply) ==
  With([panel EXCEPT !.sent = SubSeq(@, 1, i - 1) \o SubSeq(@, i + 1, Len(@))],
       LAMBDA rest :
         IF reply.kind # "json"
         THEN [rest EXCEPT !.loading = FALSE, !.error = reply.message,
                           !.answer = Null]
         ELSE IF reply.status \notin 200..299
         THEN [rest EXCEPT !.loading = FALSE,
                           !.error = IF reply.error \in {NoMessage, ""}
                                     THEN "Request failed" ELSE reply.error,
                           !.answer = Null]
         ELSE [rest EXCEPT !.loading = FALSE, !.error = NullErr,
                           !.answer = reply.answer])

\* onChange of the textarea
PanelType(text) ==
  /\ gw.pc = "panel"
  /\ text # gw.question
  /\ gw' = [gw EXCEPT !.question = text]
  /\ UNCHANGED ctlVars

\* the user presses the submit button
PanelSubmit ==
  /\ gw.pc = "panel"
  /\ ~submitDisabled(gw)
  /\ gw.submits < MaxSubmits
  /\ gw' = [askAi(gw) EXCEPT !.submits = @ + 1]
  /\ UNCHANGED ctlVars

\* the response to a request arrives
PanelAnswered(i, reply) ==
  /\ gw.pc = "panel"
  /\ i \in 1..Len(gw.sent)
  /\ reply \in PanelReplies(gw.sent[i])
  /\ gw' = askAiAnswered(gw, i, reply)
  /\ UNCHANGED ctlVars

InitPanel ==
  /\ \E n \in {Mounted(TRUE, NoItem)} : StartAt(n)
  /\ catalog = Catalog
  /\ gw = PanelMounted

NextPanel ==
  \/ \E text \in RelayTexts(MaxQuestionLen) : PanelType(text)
  \/ PanelSubmit
  \/ \E i \in 1..Len(gw.sent) : \E reply \in PanelReplies(gw.sent[i]) :
       PanelAnswered(i, reply)

SpecPanel == InitPanel /\ [][NextPanel]_vars

\* ------------------------------------------------------------------------
\* The same text searched twice: the three sub-queries of a gateway call run
\* in parallel and their responses arrive in any order
\* ------------------------------------------------------------------------

InArrivalOrder(order, results) == [i \in 1..3 |-> results[order[i]]]

\* await Promise.all([...]): the results in the order of the promises, in
\* whatever order (order[1] first) they have settled
PromiseAll(order, results) == results

\* the list the page shows for a text once the sub-queries have arrived: the
\* suggestion list of the suggestion effect, or the book list of fetchBooks
SearchOutput(db, q, fields, order) ==
  With(PromiseAll(order,
         << fetchBooksByIlikeFields(TRUE, db, NoFailure, q, fields,
               IF fields = SuggestFields THEN SuggestLimit ELSE MainLimit),
            fetchBooksByAuthor(TRUE, db, NoFailure, q,
               IF fields = SuggestFields THEN SuggestLimit ELSE MainLimit),
            fetchBooksByPublisher(TRUE, db, NoFailure, q,
               IF fields = SuggestFields THEN SuggestLimit ELSE MainLimit) >>),
       LAMBDA r :
         With(JoinSearchResults(r[1], r[2], r[3]).data, LAMBDA data :
           IF fields = SuggestFields THEN BuildSuggestions(data, q)
           ELSE Limit(SortRows(data, TitleKeyBefore), RowCeiling)))

\* the first search for a text is issued
TwiceIssue(db, q, fields) ==
  /\ gw.pc = "idle"
  /\ gw' = [pc |-> "fanned", db |-> db, q |-> q, fields |-> fields, run |-> 1,
            arrived |-> <<>>, order1 |-> <<>>, first |-> <<>>, second |-> <<>>]
  /\ UNCHANGED ctlVars

\* the response of sub-query k arrives; with the last one the awaiting code
\* goes on: after the first search the same text is searched again
TwiceArrives(k) ==
  /\ gw.pc = "fanned"
  /\ \A i \in 1..Len(gw.arrived) : gw.arrived[i] # k
  /\ \E order \in {Append(gw.arrived, k)} :
       gw' = IF Len(order) < 3 THEN [gw EXCEPT !.arrived = order]
             ELSE IF gw.run = 1
             THEN [gw EXCEPT !.arrived = <<>>, !.order1 = order, !.run = 2,
                             !.first = SearchOutput(gw.db, gw.q, gw.fields, order)]
             ELSE [gw EXCEPT !.arrived = order, !.pc = "twice",
                             !.second = SearchOutput(gw.db, gw.q, gw.fields, order)]
  /\ UNCHANGED ctlVars

\* both lists have been shown
TwiceDone ==
  /\ gw.pc = "twice"
  /\ gw' = GwIdle
  /\ UNCHANGED ctlVars

NextTwice ==
  \/ /\ gw.pc = "idle"
     /\ \E db \in {Catalog, GwCatalog, Shelf}, q \in ShelfTexts,
           fields \in {SuggestFields, MainFields} : TwiceIssue(db, q, fields)
  \/ /\ gw.pc = "fanned"
     /\ \E k \in 1..3 : TwiceArrives(k)
  \/ TwiceDone

SpecTwice == Init /\ [][NextTwice]_vars

\* ------------------------------------------------------------------------
\* Properties of the Search/Browse Controller: suggestion fetch
\* ------------------------------------------------------------------------

\* the texts for which this step issues a suggestion fetch
IssuedSuggest ==
  {c.q : c \in {d \in BagToSet(sugInFlight') :
                  /\ ~d.stale
                  /\ ~d.cancelled
                  /\ CopiesIn(d, sugInFlight') > CopiesIn(d, sugInFlight)}}

\* the texts for which this step issues a main catalog fetch
IssuedMain ==
  {c.q : c \in {d \in BagToSet(mainInFlight') :
                  ~d.stale /\ CopiesIn(d, mainInFlight') > CopiesIn(d, mainInFlight)}}

\* this step delivers the response of a suggestion fetch whose text has been
\* superseded
StaleSuggestAnswer ==
  \E call \in BagToSet(sugInFlight), net \in CtlNets :
    /\ call.stale
    /\ CopiesIn(call, sugInFlight') < CopiesIn(call, sugInFlight)
    /\ SuggestAnswer(call, net)

\* this step delivers a suggestion response to a callback that applies it
LiveSuggestAnswer ==
  \E call \in BagToSet(sugInFlight), net \in CtlNets :
    /\ ~call.cancelled
    /\ CopiesIn(call, sugInFlight') < CopiesIn(call, sugInFlight)
    /\ SuggestAnswer(call, net)

\* C1: the response of a suggestion fetch that belongs to a superseded text
\* (the trimmed text changed after the fetch was scheduled or issued) is never
\* applied: the step that delivers it leaves the suggestion list, the
\* suggestion-loading flag, the panel-open flag and the active index as they
\* were, in whatever order the responses arrive.
C1_StaleResponseDropped ==
  [][StaleSuggestAnswer =>
       UNCHANGED <<suggestions, suggestLoading, suggestOpen, activeIndex>>]_vars

\* C1 reached: the loading flag is still on and no suggestion fetch is in
\* flight, which is the state a dropped response leaves behind
C1_Reached == suggestLoading /\ sugInFlight = EmptyBag

\* C2 (as the code has it): every change of the trimmed text cancels the
\* pending suggestion timer and starts one for the new trimmed text unless
\* that text is empty or the suppression flag is set; a step that leaves the
\* trimmed text the same neither cancels nor restarts the timer (the timer
\* goes only by expiring); at most one timer is pending, for the current
\* trimmed text; and a suggestion fetch is issued only for the current trimmed
\* text.
C2_TrimmedDebounce ==
  [][/\ Cardinality(sugTimers') <= 1
     /\ sugTimers' \subseteq {Trim(search')}
     /\ Trim(search') # Trim(search) =>
          sugTimers' = IF suppress' \/ Trim(search') = <<>> THEN {}
                       ELSE {Trim(search')}
     /\ Trim(search') = Trim(search) =>
          \/ sugTimers' = sugTimers
          \/ sugTimers' = {} /\ IssuedSuggest = sugTimers
     /\ \A q \in IssuedSuggest : q = Trim(search) /\ q = Trim(search')]_vars

\* C2 reached: the text was changed, the trimmed text was not, and the timer
\* set before the change is still pending
C2_Reached == search # trimmed /\ sugTimers = {trimmed}

\* C2 as stated: every typed change of the text (to a text that is not blank)
\* leaves a restarted timer pending
C2_AsStated ==
  [][(search' # search /\ lastInput' = "typed" /\ Trim(search') # <<>>) =>
       sugTimers' = {Trim(search')}]_vars

\* C3: after a suggestion is selected, and until the user next types, no
\* suggestion fetch is issued, no suggestion response is applied and no
\* response reopens the panel, also when a timer or a fetch was pending at
\* the selection.
C3_QuietAfterSelection ==
  [][(lastInput = "selected" /\ lastInput' = "selected") =>
       /\ IssuedSuggest = {}
       /\ ~LiveSuggestAnswer
       /\ (\E call \in BagToSet(sugInFlight), net \in CtlNets :
             SuggestAnswer(call, net)) => (suggestOpen' => suggestOpen)]_vars

\* this step selects entry idx of the suggestion list, by a click or by Enter
\* on the active entry while the panel is open
Selects(idx) ==
  \/ ClickSuggestion(idx)
  \/ suggestOpen /\ activeIndex = idx /\ KeyDown("Enter")

\* C4: selecting a suggestion sets the text to the suggestion's value, closes
\* the panel, resets the active index to 0 and sets the suppression flag, and
\* leaves the suggestion list, the book list and the recent-search list
\* unchanged at that step.
C4_SelectionFrame ==
  [][\A idx \in 0..(Len(suggestions) - 1) :
       Selects(idx) =>
         /\ search' = suggestions[idx + 1].value
         /\ ~suggestOpen'
         /\ activeIndex' = 0
         /\ suppress'
         /\ UNCHANGED <<suggestions, books, recentSearches>>]_vars

\* C4 reached: a suggestion of the list has just been selected
C4_Reached ==
  /\ lastInput = "selected"
  /\ suppress /\ ~suggestOpen /\ activeIndex = 0
  /\ \E i \in 1..Len(suggestions) : suggestions[i].value = search
  /\ books # <<>>

\* ------------------------------------------------------------------------
\* Properties of the Search/Browse Controller: main catalog fetch
\* ------------------------------------------------------------------------

\* C5 (as the code has it): the main catalog fetch is not debounced.  Every
\* change of the trimmed text issues, in that same step, exactly one main
\* fetch for the new trimmed text (when the store client exists), also when
\* the suggestion timer is still pending and the text is superseded before it
\* expires; the expiry of the suggestion timer issues no main fetch; and apart
\* from a page load no other step issues one.
C5_FetchAtChange ==
  [][~Reload =>
       /\ (Trim(search') # Trim(search) /\ envReady) =>
            /\ IssuedMain = {Trim(search')}
            /\ CopiesIn(MainCall(Trim(search'), FALSE), mainInFlight') = 1
       /\ Trim(search') = Trim(search) => IssuedMain = {}
       /\ IssuedSuggest # {} => IssuedMain = {}]_vars

\* C5 reached: a main fetch for the current text is in flight while the
\* suggestion timer of that text is still pending, next to the fetch of a
\* text superseded before its timer expired
C5_Reached ==
  /\ trimmed # <<>>
  /\ sugTimers = {trimmed}
  /\ BagIn(MainCall(trimmed, FALSE), mainInFlight)
  /\ \E c \in BagToSet(mainInFlight) : c.stale /\ c.q # <<>>
  /\ sugInFlight = EmptyBag /\ ~suggestLoading

\* C5 as stated: a main catalog fetch is issued only by the expiry of the
\* debounce timer
C5_AsStated ==
  [][(~Reload /\ IssuedMain # {}) => IssuedSuggest # {}]_vars

\* C8: when a main catalog fetch ends in a gateway error, the error message is
\* set to the error's message, the loading indicator is turned off, and the
\* book list shown before is left unchanged.
C8_ErrorKeepsBooks ==
  [][\A call \in BagToSet(mainInFlight), net \in CtlNets :
       CopiesIn(call, mainInFlight') < CopiesIn(call, mainInFlight) =>
         \A result \in {MainResult(call.q, net)} :
           (Failed(result) /\ MainAnswer(call, net)) =>
             /\ error' = result.error
             /\ ~loading'
             /\ books' = books]_vars

\* C8 reached: the browse list is on screen, and the fetch for the text typed
\* since has failed with the error of its first failing request
C8_Reached ==
  /\ error = "title"
  /\ fetchOutcome = "failed"
  /\ ~loading
  /\ books = Catalog

\* C9 (as the code has it): no gateway call is retried.  Every change of the
\* trimmed text issues at most one main fetch; a step that leaves the trimmed
\* text the same (a page load apart) issues no main fetch and sets no
\* suggestion timer, and a suggestion fetch it issues uses up the one timer
\* pending.  So after a failed fetch the same request is not issued again
\* until the trimmed text changes; the suggestion fetch of that text, still
\* waiting for its timer, can be issued after the main fetch failed.
C9_NoRetry ==
  [][/\ Cardinality(IssuedMain) <= 1
     /\ Cardinality(IssuedSuggest) <= 1
     /\ \A c \in BagToSet(mainInFlight') :
          ~c.stale => CopiesIn(c, mainInFlight') = 1
     /\ (Trim(search') = Trim(search) /\ ~Reload) =>
          /\ IssuedMain = {}
          /\ sugTimers' \subseteq sugTimers
          /\ IssuedSuggest # {} => (IssuedSuggest = sugTimers /\ sugTimers' = {})]_vars

\* C9 reached: the main fetch of the current text has failed, its suggestion
\* fetch has been issued and answered, and nothing more is pending
C9_Reached ==
  /\ trimmed # <<>>
  /\ fetchOutcome = "failed"
  /\ error # NullErr
  /\ sugTimers = {} /\ sugInFlight = EmptyBag /\ mainInFlight = EmptyBag
  /\ suggestions # <<>>

\* C9 as stated: after a failed fetch no request is issued until the text
\* changes
C9_AsStated ==
  [][(fetchOutcome = "failed" /\ search' = search) =>
       (IssuedSuggest = {} /\ IssuedMain = {})]_vars

\* ------------------------------------------------------------------------
\* Properties of the recent searches
\* ------------------------------------------------------------------------

\* C7 (as the code has it): a text is added to the recent-search list only
\* when it is not empty and its trimmed value stayed the same until the
\* recent-search timer expired: a timer is pending only for the current
\* trimmed text, and the list changes only when that timer expires, by
\* putting that text in front.  Whether the catalog fetch of the text
\* succeeded, failed or is still in flight plays no part.
C7_StoredWhenUnchanged ==
  [][/\ recentTimers' \subseteq ({Trim(search')} \ {<<>>})
     /\ recentSearches' # recentSearches =>
          /\ Trim(search) # <<>>
          /\ Trim(search') = Trim(search)
          /\ Trim(search) \in recentTimers
          /\ recentTimers' = {}
          /\ recentSearches'[1] = Trim(search)]_vars

\* C7 reached: the current text is the newest recent search, and its catalog
\* fetch has failed
C7_Reached ==
  /\ recentSearches # <<>>
  /\ recentSearches[1] = trimmed
  /\ recentTimers = {}
  /\ fetchOutcome = "failed"

\* C7 as stated: a text whose catalog fetch has failed is not stored
C7_AsStated ==
  [][recentSearches' # recentSearches => fetchOutcome # "failed"]_vars

\* the place of term x in list
PlaceIn(list, x) == CHOOSE i \in 1..Len(list) : list[i] = x

\* C6: after any sequence of accepted searches the recent-search list holds
\* at most 6 entries, no entry twice and no empty or whitespace-only entry;
\* the term accepted last is first, and the other terms follow in the order
\* they had before (the oldest ones dropped when the list is full).
C6_RecentList ==
  [][/\ Len(recentSearches') <= RecentCap
     /\ \A i, j \in 1..Len(recentSearches') :
          i # j => recentSearches'[i] # recentSearches'[j]
     /\ \A i \in 1..Len(recentSearches') : Trim(recentSearches'[i]) # <<>>
     /\ \A value \in RecentTerms :
          (Trim(value) # <<>> /\ AcceptSearch(value)) =>
            /\ recentSearches'[1] = Trim(value)
            /\ \A i \in 2..Len(recentSearches') :
                 recentSearches'[i] \in Range(recentSearches)
            /\ \A i, j \in 2..Len(recentSearches') :
                 i < j => PlaceIn(recentSearches, recentSearches'[i])
                            < PlaceIn(recentSearches, recentSearches'[j])
            /\ \A k \in 1..Len(recentSearches) :
                 \/ recentSearches[k] \in Range(recentSearches')
                 \/ /\ Len(recentSearches') = RecentCap
                    /\ \A i \in 2..Len(recentSearches') :
                         PlaceIn(recentSearches, recentSearches'[i]) < k]_vars

\* C6 reached: the list is full, and a term that was not part of a full list
\* before has been accepted
C6_Reached ==
  /\ Len(recentSearches) = RecentCap
  /\ recentSearches[1] = <<"a", "b">>
  /\ recentSearches[RecentCap] = <<"a", " ", "b">>
  /\ storage = JsonStringify(recentSearches)

\* ------------------------------------------------------------------------
\* Properties of the Catalog Query Gateway
\* ------------------------------------------------------------------------

GwPattern == makeIlikePattern(gw.q)

FieldHit(b) == \E f \in Range(gw.fields) : Ilike(FieldValue(b, f), GwPattern)

AuthorHit(b) ==
  \E k \in 1..Len(b.book_contributors) :
    /\ b.book_contributors[k].role = "author"
    /\ \/ Ilike(b.book_contributors[k].authors.display_name, GwPattern)
       \/ Ilike(b.book_contributors[k].authors.sort_name, GwPattern)

PublisherHit(b) == b.publisher_id # 0 /\ Ilike(b.publishers, GwPattern)

\* the sub-queries the call sends: the pattern query of each field, the two
\* author-name lookups, the publisher lookup, and each follow-up book fetch
\* whose lookup succeeded and found something
GwSubQueries ==
  Range(gw.fields)
    \cup {"authors.display_name", "authors.sort_name", "publishers.name"}
    \cup (IF /\ gw.net["authors.display_name"] = NullErr
             /\ gw.net["authors.sort_name"] = NullErr
             /\ \E b \in Range(GwCatalog) : AuthorHit(b)
          THEN {"books.id"} ELSE {})
    \cup (IF /\ gw.net["publishers.name"] = NullErr
             /\ \E b \in Range(GwCatalog) : PublisherHit(b)
          THEN {"books.publisher_id"} ELSE {})

GwErrors == {gw.net[r] : r \in GwSubQueries} \ {NullErr}

\* C10: fetchBooksForSearch is fail-fast with no partial results: when any of
\* its sub-queries returns an error, the call returns the error of one of
\* them with null data; when every sub-query succeeded it returns, without
\* error, the rows of the books found by a field, by an author name or by the
\* publisher, each book once.
C10_FailFast ==
  (gw.pc = "returned" /\ gw.client) =>
    IF GwErrors # {}
    THEN gw.result.error \in GwErrors /\ ~gw.result.hasData
    ELSE /\ gw.result.error = NullErr
         /\ gw.result.hasData
         /\ Range(gw.result.data) =
              {b \in Range(GwCatalog) : FieldHit(b) \/ AuthorHit(b) \/ PublisherHit(b)}
         /\ \A i, j \in 1..Len(gw.result.data) :
              i # j => gw.result.data[i].id # gw.result.data[j].id

\* C10 reached: the field queries and the lookups succeeded and found books,
\* the follow-up fetch of the publisher's books failed, and the call returned
\* that error without data
C10_Reached ==
  /\ gw.pc = "returned"
  /\ gw.client
  /\ GwErrors = {"books.publisher_id"}
  /\ \E b \in Range(GwCatalog) : FieldHit(b)
  /\ gw.result.error = "books.publisher_id"
  /\ ~gw.result.hasData

\* ------------------------------------------------------------------------
\* Properties of the functions
\* ------------------------------------------------------------------------

\* the sub-query results of a join in merge order: field rows, author rows,
\* publisher rows
Merged == gw.parts[1].data \o gw.parts[2].data \o gw.parts[3].data

\* C11: the rows fetchBooksForSearch returns hold every id of the merged
\* sub-query results exactly once: no two returned rows share an id, no id of
\* the merged results is missing, and the row returned for an id is the last
\* row with that id in merge order.
C11_DedupedMerge ==
  gw.pc = "joined" =>
    /\ gw.result.error = NullErr
    /\ \A i, j \in 1..Len(gw.result.data) :
         i # j => gw.result.data[i].id # gw.result.data[j].id
    /\ {r.id : r \in Range(gw.result.data)} = {r.id : r \in Range(Merged)}
    /\ \A i \in 1..Len(gw.result.data) :
         \E k \in 1..Len(Merged) :
           /\ Merged[k] = gw.result.data[i]
           /\ \A m \in (k + 1)..Len(Merged) : Merged[m].id # gw.result.data[i].id

\* C11 reached: a book came back from all three sub-queries and another from
\* one only; the join returned the publisher query's copy of the first
C11_Reached ==
  /\ gw.pc = "joined"
  /\ \A p \in 1..3 : \E k \in 1..Len(gw.parts[p].data) : gw.parts[p].data[k].id = 1
  /\ Len(gw.result.data) = 2
  /\ Len(Merged) = 4
  /\ [id |-> 1, from |-> "publisher"] \in Range(gw.result.data)
  /\ [id |-> 1, from |-> "field"] \notin Range(gw.result.data)

\* the two arguments of the call of scoreMatch, normalized
NQuery == normalize(gw.query)
NCandidate == normalize(gw.candidate)

\* C12: scoreMatch(q, q) is 100 for every string q whose normalized form is
\* not empty, and 0 for every q whose normalized form is empty.
C12_SelfScore ==
  (gw.pc = "scored" /\ gw.query = gw.candidate) =>
    gw.result = (IF NQuery = <<>> THEN 0 ELSE 100)

\* C12 reached: a string of two characters, changed by normalization, was
\* scored against itself
C12_Reached ==
  /\ gw.pc = "scored"
  /\ gw.query = <<"A", "é">>
  /\ gw.candidate = gw.query
  /\ gw.result = 100

\* C12 as stated: scoreMatch(q, q) is 100 for every string q.
C12_AsStated ==
  (gw.pc = "scored" /\ gw.query = gw.candidate) => gw.result = 100

\* C13: for every query whose trimmed length is 0 and every candidate,
\* scoreMatch is 0.
C13_EmptyQuery ==
  (gw.pc = "scored" /\ Len(Trim(gw.query)) = 0) => gw.result = 0

\* C13 reached: a query of white space only was scored against the same
\* string, and against a candidate that contains it
C13_Reached ==
  /\ gw.pc = "scored"
  /\ gw.query = <<" ">>
  /\ gw.candidate \in {<<" ">>, <<"a", " ", "b">>}
  /\ gw.result = 0

\* the normalized candidate starts with the normalized query and is longer
ProperPrefix ==
  /\ Len(NQuery) < Len(NCandidate)
  /\ \A i \in 1..Len(NQuery) : NCandidate[i] = NQuery[i]

\* C14: when the normalized query is not empty, the normalized candidate
\* starts with it and the two differ, scoreMatch is 80.
C14_PrefixScore ==
  (gw.pc = "scored" /\ NQuery # <<>> /\ ProperPrefix) => gw.result = 80

\* C14 reached: the candidate starts with the query, and the query is also one
\* of its words; the prefix tier gave the score
C14_Reached ==
  /\ gw.pc = "scored"
  /\ gw.query = <<"a">>
  /\ gw.candidate = <<"A", " ", "b">>
  /\ gw.result = 80

\* C14 as stated: when the normalized candidate starts with the normalized
\* query and the two differ, scoreMatch is 80.
C14_AsStated ==
  (gw.pc = "scored" /\ ProperPrefix) => gw.result = 80

\* the normalized query occurs in the normalized candidate at place i
OccursAt(i) ==
  /\ i + Len(NQuery) - 1 <= Len(NCandidate)
  /\ \A k \in 1..Len(NQuery) : NCandidate[i + k - 1] = NQuery[k]

\* the normalized query starts a white-space delimited word of the candidate
WordPrefix ==
  /\ \A k \in 1..Len(NQuery) : ~IsSpace(NQuery[k])
  /\ \E i \in 1..Len(NCandidate) :
       (i = 1 \/ IsSpace(NCandidate[i - 1])) /\ OccursAt(i)

\* the tiers in order, applied to the normalized arguments
FirstTier ==
  IF NCandidate = NQuery THEN 100
  ELSE IF ProperPrefix THEN 80
  ELSE IF WordPrefix THEN 65
  ELSE IF \E i \in 1..Len(NCandidate) : OccursAt(i) THEN 45
  ELSE 0

\* C15: scoreMatch is a function of its two arguments with a value in
\* {0, 45, 65, 80, 100}: 0 when the normalized query is empty, and otherwise
\* the value of the first tier that applies, in the order exact match 100,
\* prefix of the candidate 80, prefix of a word of the candidate 65,
\* substring 45, none 0.
C15_Tiers ==
  gw.pc = "scored" =>
    /\ gw.result \in {0, 45, 65, 80, 100}
    /\ gw.result = (IF NQuery = <<>> THEN 0 ELSE FirstTier)

\* C15 reached: the query starts the second word of the candidate and is a
\* substring of it; the word tier gave the score
C15_Reached ==
  /\ gw.pc = "scored"
  /\ gw.query = <<"e">>
  /\ gw.candidate = <<"b", " ", "é">>
  /\ gw.result = 65

\* C15 as stated: the value is that of the first tier that applies, whatever
\* the query.
C15_AsStated ==
  gw.pc = "scored" => gw.result = FirstTier

\* the positions of the suggestions of one facet in the list built
OfKind(kind) == {i \in 1..Len(gw.result) : gw.result[i].kind = kind}

\* the first author of the book a title suggestion stands for scores above 0
FirstAuthorMatches(e) ==
  \E r \in Range(gw.rows) :
    /\ r.id = e.bookId
    /\ getBookAuthors(r) # <<>>
    /\ scoreMatch(gw.q, getBookAuthors(r)[1]) > 0

\* the suggestion matches the text: scoreMatch is above 0 on its name, its
\* alternate name, its title or its first author
Matches(e) ==
  CASE e.kind = "author" ->
         \/ scoreMatch(gw.q, e.value) > 0
         \/ e.alt # Null /\ scoreMatch(gw.q, e.alt) > 0
    [] e.kind = "title" -> scoreMatch(gw.q, e.value) > 0 \/ FirstAuthorMatches(e)
    [] OTHER -> scoreMatch(gw.q, e.value) > 0

\* C16: every author, title, series and publisher suggestion of the list has
\* a scoreMatch above 0 against the text on its name, alternate name, title or
\* first author; a candidate that scores 0 is not in the list.
C16_NoZeroScore ==
  gw.pc = "aggregated" => \A i \in 1..Len(gw.result) : Matches(gw.result[i])

\* C17: whatever the rows and the text, the list holds at most 6 author, 8
\* title, 4 series and 4 publisher suggestions, at most 22 in all.
C17_Caps ==
  gw.pc = "aggregated" =>
    /\ Cardinality(OfKind("author")) <= 6
    /\ Cardinality(OfKind("title")) <= 8
    /\ Cardinality(OfKind("series")) <= 4
    /\ Cardinality(OfKind("publisher")) <= 4
    /\ Len(gw.result) <= 22

\* C17 reached: the rows hold more matching authors, titles, series and
\* publishers than the caps, and the list holds 6 + 8 + 4 + 4 suggestions
C17_Reached ==
  /\ gw.pc = "aggregated"
  /\ gw.q = <<"a">>
  /\ Len(gw.rows) = 10
  /\ Cardinality({getBookAuthors(r)[1] : r \in Range(gw.rows)}) = 8
  /\ Cardinality({r.series : r \in Range(gw.rows)} \ {Null}) = 6
  /\ Cardinality({getBookPublisher(r) : r \in Range(gw.rows)} \ {Null}) = 5
  /\ Cardinality(OfKind("author")) = 6
  /\ Cardinality(OfKind("title")) = 8
  /\ Cardinality(OfKind("series")) = 4
  /\ Cardinality(OfKind("publisher")) = 4
  /\ Len(gw.result) = 22

\* the place of a facet in the list
FacetRank(kind) ==
  CASE kind = "author" -> 1
    [] kind = "title" -> 2
    [] kind = "series" -> 3
    [] kind = "publisher" -> 4

\* C18: in every list the author suggestions come first, then the title,
\* then the series, then the publisher suggestions: no suggestion of an
\* earlier facet follows one of a later facet, whichever facets are empty and
\* whatever the scores.
C18_FacetOrder ==
  gw.pc = "aggregated" =>
    \A i, j \in 1..Len(gw.result) :
      i < j => FacetRank(gw.result[i].kind) <= FacetRank(gw.result[j].kind)

\* C18 reached: a list without series suggestions, in which an author
\* suggestion stands in front of a title suggestion with a higher score and
\* publisher suggestions follow
C18_Reached ==
  /\ gw.pc = "aggregated"
  /\ OfKind("series") = {}
  /\ OfKind("publisher") # {}
  /\ \E i \in OfKind("author"), j \in OfKind("title") :
       /\ i < j
       /\ gw.result[i].alt # Null
       /\ 12 * scoreMatch(gw.q, gw.result[j].value)
            > 10 * Max(scoreMatch(gw.q, gw.result[i].value),
                       scoreMatch(gw.q, gw.result[i].alt))

\* the display names of the authors of the rows
AuthorNames ==
  UNION {Range(getBookAuthors(r)) : r \in Range(gw.rows)}

\* the display names that come with a differing sort name
AltAuthors == {d \in AuthorNames : AuthorAlt(gw.rows, d) # Null}

\* the better of the scores of a display name and of the first differing sort
\* name seen with it
BestScore(d) ==
  IF AuthorAlt(gw.rows, d) = Null THEN scoreMatch(gw.q, d)
  ELSE Max(scoreMatch(gw.q, d), scoreMatch(gw.q, AuthorAlt(gw.rows, d)))

\* the author suggestions for display name d
EntriesOf(d) == {i \in OfKind("author") : gw.result[i].value = d}

\* the string the claim has an author suggestion display
DisplayOf(d) ==
  IF scoreMatch(gw.q, AuthorAlt(gw.rows, d)) > scoreMatch(gw.q, d)
  THEN AuthorAlt(gw.rows, d) ELSE d

\* C20: an author who appears under one display name with a differing sort
\* name yields at most one author suggestion: none when neither the display
\* name nor the first differing sort name seen with it scores above 0, and
\* exactly one when one of them does and at most 6 authors of the rows score
\* above 0.  The suggestion displays that sort name when it scores strictly
\* higher than the display name, and the display name otherwise; for the text
\* "asimov", "Isaac Asimov" with sort name "Asimov, Isaac" is displayed as
\* "Asimov, Isaac" (80 against 65).
C20_OneAuthorEntry ==
  gw.pc = "aggregated" =>
    /\ \A d \in AltAuthors :
         /\ Cardinality(EntriesOf(d)) <= 1
         /\ BestScore(d) = 0 => EntriesOf(d) = {}
         /\ ( /\ BestScore(d) > 0
              /\ Cardinality({a \in AuthorNames : BestScore(a) > 0}) <= 6 )
            => Cardinality(EntriesOf(d)) = 1
         /\ \A i \in EntriesOf(d) : gw.result[i].display = DisplayOf(d)
    /\ (gw.q = Asimov /\ IsaacAsimov \in AuthorNames) =>
         /\ scoreMatch(gw.q, IsaacAsimov) = 65
         /\ scoreMatch(gw.q, AsimovIsaac) = 80
         /\ \E i \in OfKind("author") :
              /\ EntriesOf(IsaacAsimov) = {i}
              /\ gw.result[i].display = AsimovIsaac

\* C20 reached: the text is "asimov" and the one author suggestion displays
\* "Asimov, Isaac"
C20_Reached ==
  /\ gw.pc = "aggregated"
  /\ gw.q = Asimov
  /\ AltAuthors = {IsaacAsimov}
  /\ \E i \in OfKind("author") :
       /\ OfKind("author") = {i}
       /\ gw.result[i].value = IsaacAsimov
       /\ gw.result[i].alt = AsimovIsaac
       /\ gw.result[i].display = AsimovIsaac

\* C20 as stated: an author who appears under one display name with a
\* differing sort name yields exactly one author suggestion, which displays
\* the sort name when it scores strictly higher and the display name
\* otherwise.
C20_AsStated ==
  gw.pc = "aggregated" =>
    \A d \in AltAuthors :
      /\ Cardinality(EntriesOf(d)) = 1
      /\ \A i \in EntriesOf(d) : gw.result[i].display = DisplayOf(d)

\* the contributor has a name: a display name or a sort name that is neither
\* missing nor empty
HasName(c) == Truthy(c.authors.display_name) \/ Truthy(c.authors.sort_name)

\* the display name, or the sort name when there is no display name
NameOf(c) ==
  IF Truthy(c.authors.display_name) THEN c.authors.display_name
  ELSE c.authors.sort_name

\* the contributors of the book with role author and a name, by credit order
\* ascending, those without credit order last
CreditedAuthors ==
  SelectRows(SortRows(SelectRows(gw.book.book_contributors, IsAuthor), CreditBefore),
             HasName)

\* C19: getBookAuthors returns the contributors of role author only, by
\* credit order ascending with a missing credit order last, each named by its
\* display name, or by its sort name when it has no display name; only a
\* contributor with neither name is dropped, and editors never appear.
C19_AuthorsInCreditOrder ==
  gw.pc = "credited" =>
    gw.result = [i \in 1..Len(CreditedAuthors) |-> NameOf(CreditedAuthors[i])]

\* the (book, author-contributor) pairs of the rows that carry name d
PairsNamed(d) ==
  {p \in Range(ContributorRows(gw.rows)) :
     IsAuthor(p.c) /\ getAuthorDisplayName(p.c.authors) = d}

\* C21: the author suggestions stand in the order of their scores, highest
\* first, the score of a name being the higher of the scores of the name and
\* of its alternate name, and among equal scores in the order of their
\* counts, highest first; the count of a name is the number of (book,
\* author-contributor) pairs of the rows that carry the name.
C21_AuthorOrder ==
  gw.pc = "aggregated" =>
    /\ \A i \in OfKind("author") :
         gw.result[i].count = Cardinality(PairsNamed(gw.result[i].value))
    /\ \A i, j \in OfKind("author") :
         i < j =>
           \/ BestScore(gw.result[i].value) > BestScore(gw.result[j].value)
           \/ /\ BestScore(gw.result[i].value) = BestScore(gw.result[j].value)
              /\ gw.result[i].count >= gw.result[j].count

\* C21 reached: "a1" with the alternate name "a" scores 100 and comes first;
\* "a7", on two books, and "a3", on one, both score 80, and "a7" stands in
\* front of "a3" although the rows name "a3" first
C21_Reached ==
  /\ gw.pc = "aggregated"
  /\ gw.q = <<"a">>
  /\ Len(gw.rows) = 7
  /\ Len(gw.result) >= 3
  /\ gw.rows[1].id = 3
  /\ gw.result[1].value = <<"a", "1">>
  /\ BestScore(gw.result[1].value) = 100
  /\ gw.result[2].value = <<"a", "7">>
  /\ gw.result[2].count = 2
  /\ gw.result[3].value = <<"a", "3">>
  /\ gw.result[3].count = 1
  /\ BestScore(gw.result[2].value) = 80
  /\ BestScore(gw.result[3].value) = 80

\* the series, or the publisher names, of the rows
FacetValues(kind) ==
  IF kind = "series" THEN {r.series : r \in Range(gw.rows)} \ {Null, <<>>}
  ELSE {getBookPublisher(r) : r \in Range(gw.rows)} \ {Null, <<>>}

\* C22: in the series and in the publisher facet the count only breaks ties:
\* of two values of a facet, the one with the strictly higher scoreMatch
\* against the text is ranked in front of the other, whatever their counts;
\* so a suggestion never stands in front of one with a higher scoreMatch, and
\* every value with a higher scoreMatch than a listed one is listed in front
\* of it.
C22_CountBreaksTiesOnly ==
  gw.pc = "aggregated" =>
    \A kind \in {"series", "publisher"} :
      \A i \in OfKind(kind) :
        /\ \A j \in OfKind(kind) :
             scoreMatch(gw.q, gw.result[j].value) > scoreMatch(gw.q, gw.result[i].value)
               => j < i
        /\ \A w \in FacetValues(kind) :
             scoreMatch(gw.q, w) > scoreMatch(gw.q, gw.result[i].value)
               => \E j \in OfKind(kind) : j < i /\ gw.result[j].value = w

\* C23: the rows a gateway call returns are bounded by a fixed multiple of
\* its cap: the call of the suggestion fetch, over 2 fields with cap 30,
\* returns at most (2 + 3) * 30 rows, whatever the table holds.
C23_RowsCapped ==
  gw.pc = "aggregated" =>
    Len(gw.rows) <= (Len(SuggestFields) + 3) * SuggestLimit

\* ------------------------------------------------------------------------
\* Properties of the AI Query Relay
\* ------------------------------------------------------------------------

\* the relay is past the first part of POST for a request
Posted == gw.pc \in {"awaiting", "answered"}

\* the question of the request is empty, whitespace-only, missing or not a
\* string, or the body is not valid JSON
NoQuestion ==
  \/ gw.body.json # "object"
  \/ gw.body.question.type # "string"
  \/ \A i \in 1..Len(gw.body.question.text) : gw.body.question.text[i] = " "

\* C24 (as the code has it): a request without a question never reaches the
\* completion API and is answered at once: with HTTP 400 and
\* {error: "Missing question"} when the credential is configured, and with
\* HTTP 500 and the configuration error when it is not.
C24_NoQuestionRejected ==
  (Posted /\ NoQuestion) =>
     /\ gw.pc = "answered"
     /\ gw.calls = <<>>
     /\ gw.responses =
          IF gw.key
          THEN <<[status |-> 400, error |-> "Missing question", answer |-> Null]>>
          ELSE <<[status |-> 500,
                  error |-> "Server misconfigured: OPENAI_API_KEY is missing.",
                  answer |-> Null]>>

\* a whitespace-only question has been answered with HTTP 400
C24_Reached ==
  /\ gw.pc = "answered"
  /\ gw.key
  /\ gw.body.question = [type |-> "string", text |-> <<" ", " ">>]
  /\ gw.calls = <<>>
  /\ gw.responses[1].status = 400

\* C24 (as stated): every request without a question is answered with HTTP
\* 400 and {error: "Missing question"}, and no call to the completion API is
\* made for it.
C24_AsStated ==
  (Posted /\ NoQuestion) =>
     /\ gw.calls = <<>>
     /\ gw.responses =
          <<[status |-> 400, error |-> "Missing question", answer |-> Null]>>

\* C25: when the credential is not configured, a request with a valid
\* question is answered with HTTP 500 and the configuration error, which is
\* neither the validation error nor an error an upstream failure is answered
\* with, and no call to the completion API is made.
C25_Misconfigured ==
  (Posted /\ ~gw.key /\ ~NoQuestion) =>
     /\ gw.pc = "answered"
     /\ gw.calls = <<>>
     /\ Len(gw.responses) = 1
     /\ gw.responses[1].status = 500
     /\ gw.responses[1].error = "Server misconfigured: OPENAI_API_KEY is missing."
     /\ gw.responses[1].error # "Missing question"
     /\ \A o \in RelayOutcomes :
          o.kind = "throws" => errorDetail(o.err) # gw.responses[1].error

\* a valid question has been answered without the credential
C25_Reached ==
  /\ gw.pc = "answered"
  /\ ~gw.key
  /\ gw.body.question = [type |-> "string", text |-> <<"a", "b">>]
  /\ gw.responses[1].status = 500

\* C26: a completion call is made only after a catalog lookup for the
\* question, and its input holds a system instruction and a user message with
\* the question followed by a context block (which is never empty: with no
\* matching row it is the no-matches placeholder).
C26_GroundedCall ==
  (Posted /\ gw.calls # <<>>) =>
     /\ gw.lookups # <<>>
     /\ \E i \in 1..Len(gw.calls[1].input) : gw.calls[1].input[i].role = "system"
     /\ \E i \in 1..Len(gw.calls[1].input) :
          /\ gw.calls[1].input[i].role = "user"
          /\ Len(gw.calls[1].input[i].content) > Len(questionOf(gw.body))
          /\ SubSeq(gw.calls[1].input[i].content, 1, Len(questionOf(gw.body)))
               = questionOf(gw.body)

\* the completion call of the request has resolved and has been relayed
Relayed == gw.pc = "answered" /\ gw.outcome.kind = "response"

\* the generated text is missing, empty or whitespace-only
NoText ==
  \/ gw.outcome.output_text = Null
  \/ \A i \in 1..Len(gw.outcome.output_text) : gw.outcome.output_text[i] = " "

\* text is the generated text without the white space at its two ends
TrimmedText(text) ==
  /\ text # <<>>
  /\ text[1] # " "
  /\ text[Len(text)] # " "
  /\ \E i \in 1..Len(gw.outcome.output_text) :
       /\ SubSeq(gw.outcome.output_text, i, i + Len(text) - 1) = text
       /\ \A j \in 1..Len(gw.outcome.output_text) :
            (j < i \/ j >= i + Len(text)) => gw.outcome.output_text[j] = " "

\* C27: when the completion call succeeds the relay answers HTTP 200 with
\* {answer}: the generated text trimmed, or the fallback string when the
\* generated text is empty, missing or whitespace-only; the answer is never
\* empty.
C27_Answer ==
  Relayed =>
     /\ Len(gw.responses) = 1
     /\ gw.responses[1].status = 200
     /\ gw.responses[1].answer \notin {<<>>, Null}
     /\ IF NoText
        THEN gw.responses[1].answer = <<"I couldn't generate an answer for that.">>
        ELSE TrimmedText(gw.responses[1].answer)

\* a generated text with white space in front has been relayed, and so has a
\* whitespace-only one
C27_Reached ==
  /\ Relayed
  /\ gw.outcome.output_text = <<" ", "a">>
  /\ gw.responses[1].answer = <<"a">>

C27_FallbackReached ==
  /\ Relayed
  /\ gw.outcome.output_text = <<" ">>
  /\ gw.responses[1].answer = <<"I couldn't generate an answer for that.">>

\* the messages the error thrown by the completion call carries
UpstreamMessages == {gw.outcome.err[i] : i \in 1..3} \ {NoMessage, ""}

\* C28: a request has no response while the completion call is awaited and
\* exactly one once it is answered, with status 200, 400 or 500; when the
\* completion call throws, the response is HTTP 500 with {error} carrying a
\* message of the upstream error, or the fixed default when it has none.
C28_OneResponse ==
  /\ gw.pc \in {"idle", "awaiting", "answered"}
  /\ gw.pc = "awaiting" => gw.responses = <<>>
  /\ gw.pc = "answered" =>
       /\ Len(gw.responses) = 1
       /\ gw.responses[1].status \in {200, 400, 500}
       /\ gw.outcome.kind = "throws" =>
            /\ gw.responses[1].status = 500
            /\ gw.responses[1].answer = Null
            /\ IF UpstreamMessages = {}
               THEN gw.responses[1].error = "OpenAI request failed"
               ELSE gw.responses[1].error \in UpstreamMessages

\* a completion call has thrown an error whose only message is its own, and
\* one without any message
C28_Reached ==
  /\ gw.pc = "answered"
  /\ gw.outcome.kind = "throws"
  /\ gw.outcome.err = <<NoMessage, "", "timeout">>
  /\ gw.responses = <<[status |-> 500, error |-> "timeout", answer |-> Null]>>

C28_DefaultReached ==
  /\ gw.pc = "answered"
  /\ gw.outcome.kind = "throws"
  /\ gw.outcome.err = <<NoMessage, NoMessage, NoMessage>>
  /\ gw.responses[1].error = "OpenAI request failed"

\* ------------------------------------------------------------------------
\* Properties of a text searched twice
\* ------------------------------------------------------------------------

C29_BooksReached ==
  /\ gw.pc = "twice"
  /\ gw.order1 = <<2, 1, 3>>
  /\ gw.arrived = <<3, 1, 2>>
  /\ gw.fields = MainFields
  /\ Len(gw.first) >= 3
  /\ gw.second = gw.first

\* ------------------------------------------------------------------------
\* Properties of the Search/Browse Controller: the idle state
\* ------------------------------------------------------------------------

\* C30: whenever the trimmed text is empty (the effects of the change have
\* run by then) the suggestion list is empty, the panel is closed, the active
\* index is 0, no suggestion timer is pending and every suggestion fetch still
\* in flight has been cancelled.
C30_Idle ==
  trimmed = <<>> =>
     /\ suggestions = <<>>
     /\ ~suggestOpen
     /\ activeIndex = 0
     /\ sugTimers = {}
     /\ \A c \in BagToSet(sugInFlight) : c.cancelled

\* ------------------------------------------------------------------------
\* Properties of the Search/Browse Controller: the main catalog fetch
\* ------------------------------------------------------------------------

\* the sort key of a record: its title when it has no sort key
SortKey(b) == IF b.sort_title = Null THEN b.title ELSE b.sort_title

\* C31: after a successful main catalog fetch for a non-empty text the book
\* list holds at most 600 records, holds no identifier twice, and is in
\* ascending order of the sort key, the title standing in for a missing one.
C31_MainList ==
  gw.pc = "listed" =>
     /\ Len(gw.result) <= 600
     /\ \A i, j \in 1..Len(gw.result) :
          i < j => /\ gw.result[i].id # gw.result[j].id
                   /\ ~StrLess(SortKey(gw.result[j]), SortKey(gw.result[i]))

\* 601 rows have come back, the last of the store first: the list is cut to
\* 600
C31_Reached ==
  /\ gw.pc = "listed"
  /\ Len(gw.rows) = 601
  /\ Len(gw.result) = 600
  /\ gw.result[1].id = 601
  /\ gw.result[600].id = 599

\* books found by their title, notes and author have been put in the order
\* of their sort keys
C31_SortedReached ==
  /\ gw.pc = "listed"
  /\ Len(gw.result) = 5
  /\ [i \in 1..5 |-> gw.result[i].id] = <<5, 4, 3, 1, 2>>
  /\ [i \in 1..5 |-> gw.rows[i].id] # <<5, 4, 3, 1, 2>>

\* the main catalog fetches whose response arrives in this step
AnsweredMain ==
  {c \in BagToSet(mainInFlight) : CopiesIn(c, mainInFlight') < CopiesIn(c, mainInFlight)}

\* C32: the response of a main catalog fetch issued for an earlier text never
\* overwrites the book list or the error message, so that once no fetch is in
\* flight both are those of the fetch of the current text.
C32_StaleNeverOverwrites ==
  [][\A c \in AnsweredMain : c.stale => (books' = books /\ error' = error)]_vars

\* C33: the loading indicator is on exactly while a main catalog fetch is in
\* flight.
C33_LoadingWhileInFlight ==
  loading <=> mainInFlight # EmptyBag

\* ------------------------------------------------------------------------
\* Properties of the Search/Browse Controller: suggestions after typing
\* ------------------------------------------------------------------------

\* no suggestion timer is pending and no suggestion fetch in flight will be
\* applied
SuggestQuiet ==
  /\ sugTimers = {}
  /\ \A c \in BagToSet(sugInFlight) : c.cancelled

\* the suggestion list is the one computed from the current trimmed text, or
\* the empty one a failed gateway call leaves
SuggestSettled ==
  \/ suggestions = <<>>
  \/ \E found \in {SuggestResult(trimmed, NoFailure)} :
       ~Failed(found) /\ suggestions = BuildSuggestions(found.data, trimmed)

\* C34 (as the code has it): typing that changes the trimmed text to a
\* non-empty one starts the suggestion timer of the new text, also after a
\* selection or a quick search; and once the suggestion effect has set the
\* timer of the current text and nothing is pending any more, the suggestions
\* of that text have been applied, unless the gateway call failed.
C34_AppliedAfterChange ==
  /\ [][(lastInput' = "typed" /\ Trim(search') # Trim(search)
           /\ Trim(search') # <<>>) =>
          (~suppress' /\ sugCleanup' /\ sugTimers' = {Trim(search')})]_vars
  /\ []((trimmed # <<>> /\ sugCleanup /\ SuggestQuiet) => SuggestSettled)

\* "a" has been typed, its suggestion timer has expired and its fetch has
\* answered: the two suggestions of "a" are shown and nothing is pending
C34_Reached ==
  /\ lastInput = "typed"
  /\ search = <<"a">>
  /\ recentSearches = <<>>
  /\ books = <<catalog[1]>>
  /\ fetchOutcome = "ok"
  /\ sugCleanup /\ SuggestQuiet
  /\ Len(suggestions) = 2
  /\ suggestOpen

\* C34 (as stated): when the text is not empty and the last input was the
\* user typing, the suggestions of the current trimmed text get applied unless
\* the gateway call fails: nothing is left pending without them.
C34_AsStated ==
  (lastInput = "typed" /\ trimmed # <<>> /\ SuggestQuiet) => SuggestSettled

\* C35: whenever the suggestion list is on screen and no suggestion timer or
\* fetch is pending, the list is the one computed from the current trimmed
\* text, also after a selection or a quick search followed by a focus or an
\* arrow key.
C35_ShownIsCurrent ==
  (ListShown /\ SuggestQuiet) => SuggestSettled

\* C36: the active index is never negative, and it is smaller than the length
\* of the suggestion list whenever that list is not empty.
C36_ActiveIndexInRange ==
  /\ activeIndex >= 0
  /\ suggestions # <<>> => activeIndex < Len(suggestions)

\* ------------------------------------------------------------------------
\* Properties of the AI panel
\* ------------------------------------------------------------------------

ErrorSet == gw.error \notin {NullErr, NoMessage, ""}
AnswerSet == gw.answer \notin {Null, <<>>}

\* C37: in the AI panel at most one request is in flight; the error and the
\* answer are never both set, and neither is set while loading; a submit of an
\* empty or whitespace-only question sends nothing and leaves the state as it
\* is; and the response to a request leaves loading false and either the
\* answer or the error set.
C37_Panel ==
  /\ [](/\ Len(gw.sent) <= 1
        /\ ~(ErrorSet /\ AnswerSet)
        /\ gw.loading => (~ErrorSet /\ ~AnswerSet)
        /\ gw.loading <=> gw.sent # <<>>)
  /\ [][(gw'.submits > gw.submits /\ Trim(gw.question) = <<>>) =>
          (/\ gw'.sent = gw.sent
           /\ gw'.loading = gw.loading
           /\ gw'.error = gw.error
           /\ gw'.answer = gw.answer
           /\ gw'.question = gw.question)]_vars
  /\ [][Len(gw'.sent) < Len(gw.sent) =>
          (~gw'.loading /\ (ErrorSet' \/ AnswerSet'))]_vars

\* a question has been answered, and the next one has failed upstream
C37_Reached ==
  /\ gw.submits = 2
  /\ gw.sent = <<>>
  /\ ~gw.loading
  /\ gw.error = "quota"
  /\ gw.answer = Null

\* a whitespace-only question has been submitted after an answer was shown
C37_BlankReached ==
  /\ gw.submits = 2
  /\ gw.question = <<" ">>
  /\ gw.answer = <<"a">>
  /\ gw.sent = <<>>
====
